---- MODULE Spec2Model ----
(***************************************************************************)
(* PlayWise: the in-memory catalog engine (playlist, registry, rating      *)
(* tree, play history, artist blocklist, sorter) and the page handlers     *)
(* that compose its operations.  The repository holds two engines; the     *)
(* variable `engine` says which one a behaviour runs.                      *)
(***************************************************************************)
EXTENDS Integers, Sequences, FiniteSets, TLC

\* ---------------------------------------------------------------- bounds
MaxIds == 2          \* songs ever created in one behaviour
MaxRates == 1        \* successful rateSong calls in one behaviour
MaxPlays == 1        \* history length reached in the engine specification
ListIds == 3         \* songs ever created in the playlist specification
MaxTreeRates == 2    \* successful rateSong calls in the rating specification
MaxLen == 3          \* longest input handed to the sorter
MaxClock == 1        \* ticks of the clock in one behaviour
MaxHist == 2         \* largest configured history size in the history specification
MaxRandom == 2       \* distinct values Math.random() returns in the id specification

\* ------------------------------------------------------- program constants
DefaultMaxSize == 50
MinRating == 1
MaxRating == 5

Engines == {"first", "second"}
Null == 0

\* ------------------------------------------------------------------ text
\* A string is a sequence of characters.
Artists == {<<"D", "r">>, <<"d", "r">>, <<"q">>}
NoText == <<>>

\* the songs the page adds: two share a title, two a duration, two an artist up
\* to letter case
NewSongs == {<<<<"a">>, <<"D", "r">>, 5>>, <<<<"b">>, <<"d", "r">>, 3>>, <<<<"a">>, <<"q">>, 3>>}

LowerChar(c) ==
  CASE c = "D" -> "d"
    [] c = "R" -> "r"
    [] c = "Q" -> "q"
    [] c = "A" -> "a"
    [] c = "B" -> "b"
    [] OTHER -> c

IsUpper(c) == LowerChar(c) # c

LetterRank(c) ==
  CASE LowerChar(c) = "a" -> 1
    [] LowerChar(c) = "b" -> 2
    [] LowerChar(c) = "d" -> 4
    [] LowerChar(c) = "q" -> 17
    [] LowerChar(c) = "r" -> 18
    [] OTHER -> 27

\* String.prototype.toLowerCase
toLowerCase(s) == [i \in DOMAIN s |-> LowerChar(s[i])]

RECURSIVE PrimaryCompare(_, _, _)
PrimaryCompare(s, t, i) ==
  IF i > Len(s) /\ i > Len(t) THEN 0
  ELSE IF i > Len(s) THEN -1
  ELSE IF i > Len(t) THEN 1
  ELSE IF LetterRank(s[i]) < LetterRank(t[i]) THEN -1
  ELSE IF LetterRank(s[i]) > LetterRank(t[i]) THEN 1
  ELSE PrimaryCompare(s, t, i + 1)

RECURSIVE CaseCompare(_, _, _)
CaseCompare(s, t, i) ==
  IF i > Len(s) \/ i > Len(t) THEN 0
  ELSE IF ~IsUpper(s[i]) /\ IsUpper(t[i]) THEN -1
  ELSE IF IsUpper(s[i]) /\ ~IsUpper(t[i]) THEN 1
  ELSE CaseCompare(s, t, i + 1)

\* String.prototype.localeCompare: letters first, then lower case before upper case
localeCompare(s, t) ==
  IF PrimaryCompare(s, t, 1) # 0 THEN PrimaryCompare(s, t, 1) ELSE CaseCompare(s, t, 1)

\* ----------------------------------------------------------------- state
VARIABLES
  engine,          \* which engine of the repository runs
  heap,            \* the Song objects ever created: object -> fields
  nextId,          \* the next Song object addSong creates
  now,             \* the clock new Date() reads
  nodes,           \* the playlist's PlaylistNode objects: address -> fields
  head, tail, size,
  songMap,         \* SongLookup: the map from id to Song object
  rnodes, root,    \* the rating tree's RatingNode objects and its root
  ratings,         \* first engine: PlaywiseEngine.ratings (id -> rating)
  history,         \* the history array of Song objects, oldest first
  maxSize,         \* second engine: PlaybackHistory.maxSize
  blockedArtists,
  sorted,          \* the sorter's last result
  titleMap,        \* second engine: SongLookup.titleMap (lower-case title -> Songs)
  frame,           \* the loop a call is in and its local variables
  backend,         \* the backend of the second page: the mutations it has applied
  pc,              \* second page: where each handler call is
  resp,            \* second page: the snapshot the backend sent to each handler call
  snapshot,        \* second page: the snapshot state of the component
  ret              \* the last call and what it returned

vars == <<engine, heap, nextId, now, nodes, head, tail, size, songMap, rnodes, root,
          ratings, history, maxSize, blockedArtists, sorted, titleMap, frame, backend,
          pc, resp, snapshot, ret>>

\* the state of the second page and of its backend
page == <<backend, pc, resp, snapshot>>

\* ------------------------------------------------------------- the playlist
\* A playlist value: the linked list together with the Song objects, because
\* addSong creates the Song it appends.
PL == [nodes |-> nodes, head |-> head, tail |-> tail, size |-> size,
       heap |-> heap, nextId |-> nextId, now |-> now, engine |-> engine]

\* the id string addSong builds from Date.now() and Math.random()
MakeId(date, random) == <<date, random>>

\* a Song as addSong builds it; rating (0: not set) and addedAt are fields of
\* the second engine's Song only
NewSong(e, id, title, artist, duration, date) ==
  [id |-> id, title |-> title, artist |-> artist, duration |-> duration, rating |-> 0,
   addedAt |-> IF e = "second" THEN date ELSE 0]

\* new PlaylistNode(song): the lowest address no live node uses
NewAddr(ns) == CHOOSE a \in 1..(Cardinality(DOMAIN ns) + 1) : a \notin DOMAIN ns

PlaylistNode(song) == [song |-> song, next |-> Null, prev |-> Null]

\* nodes with one more / one changed / one collected entry
Put(ns, a, n) == [x \in DOMAIN ns \cup {a} |-> IF x = a THEN n ELSE ns[x]]
Drop(ns, a) == [x \in DOMAIN ns \ {a} |-> ns[x]]

\* for (i = 0; i < index [&& current]; i++) current = current.next
RECURSIVE Walk(_, _, _)
Walk(ns, current, k) ==
  IF k = 0 \/ current = Null THEN current ELSE Walk(ns, ns[current].next, k - 1)

\* an addSong that forgets newNode.prev = this.tail
addSongPLWithoutPrev(p, title, artist, duration, random) ==
  LET id == p.nextId
      a == NewAddr(p.nodes)
      newNode == PlaylistNode(id)
      hp == Put(p.heap, id, NewSong(p.engine, MakeId(p.now, random), title, artist,
                                   duration, p.now))
  IN IF p.head = Null
       THEN [p EXCEPT !.nodes = Put(p.nodes, a, newNode), !.head = a, !.tail = a,
                      !.size = p.size + 1, !.heap = hp, !.nextId = id + 1]
       ELSE [p EXCEPT !.nodes = Put([p.nodes EXCEPT ![p.tail].next = a], a, newNode),
                      !.tail = a,
                      !.size = p.size + 1, !.heap = hp, !.nextId = id + 1]

\* Playlist.addSong / PlaylistEngine.addSong; random is what Math.random() returns
addSongPL(p, title, artist, duration, random) ==
  LET id == p.nextId
      a == NewAddr(p.nodes)
      newNode == PlaylistNode(id)
      hp == Put(p.heap, id, NewSong(p.engine, MakeId(p.now, random), title, artist,
                                   duration, p.now))
  IN IF p.head = Null
       THEN [p EXCEPT !.nodes = Put(p.nodes, a, newNode), !.head = a, !.tail = a,
                      !.size = p.size + 1, !.heap = hp, !.nextId = id + 1]
       ELSE [p EXCEPT !.nodes = Put([p.nodes EXCEPT ![p.tail].next = a], a,
                                    [newNode EXCEPT !.prev = p.tail]),
                      !.tail = a,
                      !.size = p.size + 1, !.heap = hp, !.nextId = id + 1]

\* Playlist.deleteSong (first engine)
deleteSong1(p, index) ==
  IF index < 0 \/ index >= p.size THEN p
  ELSE LET current == Walk(p.nodes, p.head, index)
           cp == p.nodes[current].prev
           cn == p.nodes[current].next
           n1 == IF cp # Null THEN [p.nodes EXCEPT ![cp].next = cn] ELSE p.nodes
           h1 == IF cp # Null THEN p.head ELSE cn
           n2 == IF cn # Null THEN [n1 EXCEPT ![cn].prev = cp] ELSE n1
           t1 == IF cn # Null THEN p.tail ELSE cp
       IN [p EXCEPT !.nodes = Drop(n2, current), !.head = h1, !.tail = t1,
                    !.size = p.size - 1]

\* PlaylistEngine.deleteSong (second engine)
deleteSong2(p, index) ==
  IF index < 0 \/ index >= p.size THEN p
  ELSE LET current == Walk(p.nodes, p.head, index)
       IN IF current = Null THEN p
          ELSE LET cp == p.nodes[current].prev
                   cn == p.nodes[current].next
                   n1 == IF cp # Null THEN [p.nodes EXCEPT ![cp].next = cn] ELSE p.nodes
                   n2 == IF cn # Null THEN [n1 EXCEPT ![cn].prev = cp] ELSE n1
                   h1 == IF current = p.head THEN cn ELSE p.head
                   t1 == IF current = p.tail THEN cp ELSE p.tail
               IN [p EXCEPT !.nodes = Drop(n2, current), !.head = h1, !.tail = t1,
                            !.size = p.size - 1]

\* a delete that forgets to walk to the index and unlinks the head
deleteSongAtHead(e, p, index) ==
  IF index < 0 \/ index >= p.size THEN p
  ELSE IF e = "first" THEN deleteSong1(p, 0) ELSE deleteSong2(p, 0)

deleteSongPL(e, p, index) == IF e = "first" THEN deleteSong1(p, index) ELSE deleteSong2(p, index)

\* what deleteSong returns
deleteSongOk(e, p, index) ==
  /\ index >= 0
  /\ index < p.size
  /\ (e = "second" => Walk(p.nodes, p.head, index) # Null)

\* Playlist.getSong
getSong(p, index) ==
  IF index < 0 \/ index >= p.size THEN Null
  ELSE p.nodes[Walk(p.nodes, p.head, index)].song

\* Playlist.getAllSongs / PlaylistEngine.getAllSongs
RECURSIVE Collect(_, _, _)
Collect(ns, current, fuel) ==
  IF current = Null \/ fuel = 0 THEN <<>>
  ELSE <<ns[current].song>> \o Collect(ns, ns[current].next, fuel - 1)

getAllSongs(p) == Collect(p.nodes, p.head, Cardinality(DOMAIN p.nodes) + 1)

\* Playlist.insertAt (first engine).  The append branch builds a new Song; no
\* moveSong reaches it (the destination is below the size after the removal), so
\* its draw of Math.random() is left at a value not drawn before.
insertAt1(p, index, song) ==
  IF index = p.size
    THEN addSongPL(p, p.heap[song].title, p.heap[song].artist, p.heap[song].duration,
                   p.nextId)
    ELSE LET a == NewAddr(p.nodes)
             current == Walk(p.nodes, p.head, index)
             cp == p.nodes[current].prev
             newNode == [song |-> song, next |-> current, prev |-> cp]
             n1 == IF cp # Null THEN [p.nodes EXCEPT ![cp].next = a] ELSE p.nodes
             h1 == IF cp # Null THEN p.head ELSE a
             n2 == [n1 EXCEPT ![current].prev = a]
         IN [p EXCEPT !.nodes = Put(n2, a, newNode), !.head = h1, !.size = p.size + 1]

\* PlaylistEngine.insertAtIndex (second engine)
insertAtIndex2(p, index, song) ==
  IF index = p.size
    THEN addSongPL(p, p.heap[song].title, p.heap[song].artist, p.heap[song].duration,
                   p.nextId)
    ELSE LET a == NewAddr(p.nodes)
         IN IF index = 0
              THEN LET newNode == [song |-> song, next |-> p.head, prev |-> Null]
                       n1 == IF p.head # Null THEN [p.nodes EXCEPT ![p.head].prev = a]
                             ELSE p.nodes
                   IN [p EXCEPT !.nodes = Put(n1, a, newNode), !.head = a,
                                !.tail = IF p.tail = Null THEN a ELSE p.tail,
                                !.size = p.size + 1]
              ELSE LET current == Walk(p.nodes, p.head, index)
                   IN IF current = Null THEN [p EXCEPT !.size = p.size + 1]
                      ELSE LET cp == p.nodes[current].prev
                               newNode == [song |-> song, next |-> current, prev |-> cp]
                               n1 == IF cp # Null THEN [p.nodes EXCEPT ![cp].next = a]
                                     ELSE p.nodes
                               n2 == [n1 EXCEPT ![current].prev = a]
                           IN [p EXCEPT !.nodes = Put(n2, a, newNode),
                                        !.size = p.size + 1]

\* a moveSong that forgets the removal shifted the later indices
AdjustIndexUnshifted(fromIndex, toIndex) == toIndex

\* the destination index after the source was removed
AdjustIndex(fromIndex, toIndex) == IF fromIndex < toIndex THEN toIndex - 1 ELSE toIndex

\* Playlist.moveSong (first engine): the playlist afterwards
moveSong1(p, fromIndex, toIndex) ==
  IF fromIndex < 0 \/ fromIndex >= p.size \/ toIndex < 0 \/ toIndex >= p.size THEN p
  ELSE IF fromIndex = toIndex THEN p
  ELSE LET song == getSong(p, fromIndex)
       IN IF song = Null THEN p
          ELSE insertAt1(deleteSong1(p, fromIndex), AdjustIndex(fromIndex, toIndex), song)

\* Playlist.moveSong (first engine): what it returns
moveSongOk1(p, fromIndex, toIndex) ==
  IF fromIndex < 0 \/ fromIndex >= p.size \/ toIndex < 0 \/ toIndex >= p.size THEN FALSE
  ELSE IF fromIndex = toIndex THEN TRUE
  ELSE getSong(p, fromIndex) # Null

\* PlaylistEngine.moveSong (second engine): the playlist afterwards
moveSong2(p, fromIndex, toIndex) ==
  IF \/ fromIndex = toIndex
     \/ fromIndex < 0 \/ fromIndex >= p.size
     \/ toIndex < 0 \/ toIndex >= p.size
    THEN p
    ELSE LET current == Walk(p.nodes, p.head, fromIndex)
         IN IF current = Null THEN p
            ELSE insertAtIndex2(deleteSong2(p, fromIndex),
                                AdjustIndex(fromIndex, toIndex), p.nodes[current].song)

\* PlaylistEngine.moveSong (second engine): what it returns
moveSongOk2(p, fromIndex, toIndex) ==
  IF \/ fromIndex = toIndex
     \/ fromIndex < 0 \/ fromIndex >= p.size
     \/ toIndex < 0 \/ toIndex >= p.size
    THEN FALSE
    ELSE Walk(p.nodes, p.head, fromIndex) # Null

\* a move that removes the song and does not put it back
moveSongWithoutInsert(e, p, f, t) ==
  IF e = "first"
    THEN (IF moveSongOk1(p, f, t) /\ f # t THEN deleteSong1(p, f) ELSE p)
    ELSE (IF moveSongOk2(p, f, t) THEN deleteSong2(p, f) ELSE p)

moveSongPL(e, p, f, t) == IF e = "first" THEN moveSong1(p, f, t) ELSE moveSong2(p, f, t)
moveSongOk(e, p, f, t) == IF e = "first" THEN moveSongOk1(p, f, t) ELSE moveSongOk2(p, f, t)

\* the link-swapping loop of reversePlaylist (first engine); returns the nodes
\* and the last value of temp
RECURSIVE SwapLoop1(_, _, _)
SwapLoop1(ns, current, temp) ==
  IF current = Null THEN [nodes |-> ns, temp |-> temp]
  ELSE LET t == ns[current].prev
           nx == ns[current].next
       IN SwapLoop1([ns EXCEPT ![current] = [@ EXCEPT !.prev = nx, !.next = t]], nx, t)

\* while (current && current.next) current = current.next
RECURSIVE LastFrom(_, _, _)
LastFrom(ns, current, fuel) ==
  IF current = Null \/ fuel = 0 THEN current
  ELSE IF ns[current].next = Null THEN current
  ELSE LastFrom(ns, ns[current].next, fuel - 1)

\* Playlist.reversePlaylist (first engine)
reversePlaylist1(p) ==
  LET r == SwapLoop1(p.nodes, p.head, Null)
      h1 == IF r.temp # Null THEN r.nodes[r.temp].prev ELSE p.head
  IN [p EXCEPT !.nodes = r.nodes, !.head = h1,
               !.tail = LastFrom(r.nodes, h1, Cardinality(DOMAIN r.nodes))]

\* the link-swapping loop of reversePlaylist (second engine)
RECURSIVE SwapLoop2(_, _)
SwapLoop2(ns, current) ==
  IF current = Null THEN ns
  ELSE LET temp == ns[current].next
       IN SwapLoop2([ns EXCEPT ![current] = [@ EXCEPT !.next = ns[current].prev,
                                                        !.prev = temp]], temp)

\* PlaylistEngine.reversePlaylist (second engine)
reversePlaylist2(p) ==
  [p EXCEPT !.nodes = SwapLoop2(p.nodes, p.head), !.head = p.tail, !.tail = p.head]

\* a reverse that swaps head and tail and leaves the links of the nodes alone
reversePlaylistLinksKept(e, p) == [p EXCEPT !.head = p.tail, !.tail = p.head]

reversePlaylistPL(e, p) == IF e = "first" THEN reversePlaylist1(p) ELSE reversePlaylist2(p)

\* ------------------------------------------------------------- the registry
\* songs.findIndex(s => s.id === songId): the first position, 0 for none
\* (positions count from 1 here)
findIndex(hp, songs, songId) ==
  IF \E i \in 1..Len(songs) : hp[songs[i]].id = songId
    THEN CHOOSE i \in 1..Len(songs) :
           /\ hp[songs[i]].id = songId
           /\ \A j \in 1..(i - 1) : hp[songs[j]].id # songId
    ELSE 0

\* SongLookup.addSong: map.set(song.id, song)
lookupAddSong(map, hp, song) == Put(map, hp[song].id, song)

\* SongLookup.removeSong: map.delete(id)
removeSong(map, id) == IF id \in DOMAIN map THEN Drop(map, id) ELSE map

\* SongLookup.addSong of the second engine, the title index: the Song goes to
\* the end of the list under its lower-case title; the first engine has no
\* title index
titleMapAdd(e, tm, hp, song) ==
  LET titleKey == toLowerCase(hp[song].title)
  IN IF e = "first" THEN tm
     ELSE Put(tm, titleKey, Append(IF titleKey \in DOMAIN tm THEN tm[titleKey] ELSE <<>>, song))

\* SongLookup.removeSong of the second engine, the title index: the first entry
\* with the id leaves the list under the title of the Song the id map holds, and
\* an emptied list leaves the index
titleMapRemove(e, tm, map, hp, songId) ==
  IF e = "first" \/ songId \notin DOMAIN map THEN tm
  ELSE LET titleKey == toLowerCase(hp[map[songId]].title)
       IN IF titleKey \notin DOMAIN tm THEN tm
          ELSE LET titleSongs == tm[titleKey]
                   index == findIndex(hp, titleSongs, songId)
                   rest == SubSeq(titleSongs, 1, index - 1)
                             \o SubSeq(titleSongs, index + 1, Len(titleSongs))
               IN IF index = 0 THEN tm
                  ELSE IF rest = <<>> THEN Drop(tm, titleKey)
                  ELSE [tm EXCEPT ![titleKey] = rest]

\* SongLookup.searchByTitle (second engine)
searchByTitle(tm, title) ==
  IF toLowerCase(title) \in DOMAIN tm THEN tm[toLowerCase(title)] ELSE <<>>

\* SongLookup.getSongById: the Song stored under the id, or null
getSongById(map, id) == IF id \in DOMAIN map THEN map[id] ELSE Null

\* ----------------------------------------------------------- the rating tree
RatingNode(rating, song) ==
  [rating |-> rating, songs |-> <<song>>, left |-> Null, right |-> Null]

\* an insert that descends to the wrong side: smaller ratings to the right
RECURSIVE insertNodeMirrored(_, _, _, _)
insertNodeMirrored(rn, node, song, rating) ==
  IF node = Null
    THEN LET a == Cardinality(DOMAIN rn) + 1
         IN [rnodes |-> Put(rn, a, RatingNode(rating, song)), node |-> a]
  ELSE IF rating = rn[node].rating
    THEN [rnodes |-> [rn EXCEPT ![node].songs = Append(@, song)], node |-> node]
  ELSE IF rating > rn[node].rating
    THEN LET r == insertNodeMirrored(rn, rn[node].left, song, rating)
         IN [rnodes |-> [r.rnodes EXCEPT ![node].left = r.node], node |-> node]
    ELSE LET r == insertNodeMirrored(rn, rn[node].right, song, rating)
         IN [rnodes |-> [r.rnodes EXCEPT ![node].right = r.node], node |-> node]

\* RatingTree.insertRating / SongRatingTree.insertNode: the tree's nodes and the
\* node the call returns
RECURSIVE insertNode(_, _, _, _)
insertNode(rn, node, song, rating) ==
  IF node = Null
    THEN LET a == Cardinality(DOMAIN rn) + 1
         IN [rnodes |-> Put(rn, a, RatingNode(rating, song)), node |-> a]
  ELSE IF rating = rn[node].rating
    THEN [rnodes |-> [rn EXCEPT ![node].songs = Append(@, song)], node |-> node]
  ELSE IF rating < rn[node].rating
    THEN LET r == insertNode(rn, rn[node].left, song, rating)
         IN [rnodes |-> [r.rnodes EXCEPT ![node].left = r.node], node |-> node]
    ELSE LET r == insertNode(rn, rn[node].right, song, rating)
         IN [rnodes |-> [r.rnodes EXCEPT ![node].right = r.node], node |-> node]

\* a lookup that descends to the other side
RECURSIVE findNodeMirrored(_, _, _)
findNodeMirrored(rn, node, rating) ==
  IF node = Null THEN Null
  ELSE IF rn[node].rating = rating THEN node
  ELSE IF rating > rn[node].rating THEN findNodeMirrored(rn, rn[node].left, rating)
  ELSE findNodeMirrored(rn, rn[node].right, rating)

\* RatingTree.findRatingNode / SongRatingTree.findNode
RECURSIVE findNode(_, _, _)
findNode(rn, node, rating) ==
  IF node = Null THEN Null
  ELSE IF rn[node].rating = rating THEN node
  ELSE IF rating < rn[node].rating THEN findNode(rn, rn[node].left, rating)
  ELSE findNode(rn, rn[node].right, rating)

\* RatingTree.searchByRating / SongRatingTree.searchByRating
searchByRating(rn, rt, rating) ==
  LET node == findNode(rn, rt, rating)
  IN IF node = Null THEN <<>> ELSE rn[node].songs

\* a delete written with splice(songIndex): everything from the song on goes
RECURSIVE deleteFromNodeToEnd(_, _, _, _)
deleteFromNodeToEnd(rn, hp, node, songId) ==
  IF node = Null THEN [rnodes |-> rn, ok |-> FALSE]
  ELSE LET songIndex == findIndex(hp, rn[node].songs, songId)
       IN IF songIndex # 0
            THEN [rnodes |-> [rn EXCEPT ![node].songs = SubSeq(@, 1, songIndex - 1)],
                  ok |-> TRUE]
            ELSE LET l == deleteFromNodeToEnd(rn, hp, rn[node].left, songId)
                 IN IF l.ok THEN l ELSE deleteFromNodeToEnd(rn, hp, rn[node].right, songId)

\* SongRatingTree.deleteFromNode (second engine): the nodes afterwards and the
\* value returned
RECURSIVE deleteFromNode(_, _, _, _)
deleteFromNode(rn, hp, node, songId) ==
  IF node = Null THEN [rnodes |-> rn, ok |-> FALSE]
  ELSE LET songIndex == findIndex(hp, rn[node].songs, songId)
       IN IF songIndex # 0
            THEN [rnodes |-> [rn EXCEPT ![node].songs =
                                SubSeq(@, 1, songIndex - 1) \o SubSeq(@, songIndex + 1, Len(@))],
                  ok |-> TRUE]
            ELSE LET l == deleteFromNode(rn, hp, rn[node].left, songId)
                 IN IF l.ok THEN l ELSE deleteFromNode(rn, hp, rn[node].right, songId)

\* a traversal that visits the node before its subtrees
RECURSIVE inOrderTraversalNodeFirst(_, _)
inOrderTraversalNodeFirst(rn, node) ==
  IF node = Null THEN <<>>
  ELSE <<[rating |-> rn[node].rating, songs |-> rn[node].songs]>>
         \o inOrderTraversalNodeFirst(rn, rn[node].left)
         \o inOrderTraversalNodeFirst(rn, rn[node].right)

\* RatingTree.inOrderTraversal (first engine): the buckets, left subtree first
RECURSIVE inOrderTraversal(_, _)
inOrderTraversal(rn, node) ==
  IF node = Null THEN <<>>
  ELSE inOrderTraversal(rn, rn[node].left)
         \o <<[rating |-> rn[node].rating, songs |-> rn[node].songs]>>
         \o inOrderTraversal(rn, rn[node].right)

\* RatingTree.getAllRatings
getAllRatings(rn, rt) == inOrderTraversal(rn, rt)

\* ---------------------------------------------------------------- the history
\* a play recorded at the front (unshift) instead of the end (push)
addPlayFront(h, song) == <<song>> \o h

\* HistoryStack.addPlay (first engine)
addPlay(h, song) == Append(h, song)

\* a bounded history that drops the entry just pushed (pop) instead of the
\* oldest one (shift)
addToHistoryDropNewest(h, max, song) ==
  LET pushed == Append(h, song)
  IN IF Len(pushed) > max THEN SubSeq(pushed, 1, Len(pushed) - 1) ELSE pushed

\* PlaybackHistory.addToHistory (second engine)
addToHistory(h, max, song) ==
  LET pushed == Append(h, song)
  IN IF Len(pushed) > max THEN Tail(pushed) ELSE pushed

\* an undo that takes the oldest entry (shift) instead of the newest (pop)
shifted(h) == IF h = <<>> THEN <<>> ELSE Tail(h)

\* undoLastPlay: the array afterwards, and the song returned (this.history.pop() || null)
popped(h) == IF h = <<>> THEN <<>> ELSE SubSeq(h, 1, Len(h) - 1)
undoLastPlay(h) == IF h = <<>> THEN Null ELSE h[Len(h)]

\* Array.prototype.slice(start): from start, counted from the end when negative
\* (-0 is 0: the whole array)
slice(h, start) ==
  LET k == IF start < 0 THEN (IF Len(h) + start < 0 THEN 0 ELSE Len(h) + start)
           ELSE (IF start > Len(h) THEN Len(h) ELSE start)
  IN SubSeq(h, k + 1, Len(h))

\* Array.prototype.reverse
reverse(h) == [i \in 1..Len(h) |-> h[Len(h) + 1 - i]]

\* HistoryStack.getHistory (first engine): [...this.stack]
getHistory(h) == h

\* PlaybackHistory.getRecentHistory (second engine)
getRecentHistory(h, limit) == reverse(slice(h, 0 - limit))

\* the history as exportSnapshot reads it
DefaultLimit == 10
snapshotHistory(e, h) == IF e = "first" THEN getHistory(h) ELSE getRecentHistory(h, DefaultLimit)

\* -------------------------------------------------------------- the blocklist
\* a block that stores the name as it was typed
addToBlocklistAsTyped(b, artist) == b \cup {artist}

\* ArtistBlocklist.addToBlocklist
addToBlocklist(b, artist) == b \cup {toLowerCase(artist)}
\* an unblock written as splice(indexOf(name), 1): an absent name takes another
\* entry out
removeFromBlocklistSplice(b, artist) ==
  IF toLowerCase(artist) \in b \/ b = {} THEN b \ {toLowerCase(artist)}
  ELSE b \ {CHOOSE x \in b : TRUE}

\* ArtistBlocklist.removeFromBlocklist
removeFromBlocklist(b, artist) == b \ {toLowerCase(artist)}
\* a lookup that forgets to lower-case the name it is asked about
isBlockedExact(b, artist) == artist \in b

isBlocked(b, artist) == toLowerCase(artist) \in b

\* ----------------------------------------------------------------- the sorter
Criteria1 == {"title", "artist", "duration"}
Criteria2 == {"title", "duration", "addedAt", "artist"}
SortCriteria(e) == IF e = "first" THEN Criteria1 ELSE Criteria2
SortOrder == {"asc", "desc"}

\* PlaylistSorter.compare
compare(hp, a, b, criteria) ==
  CASE criteria = "title" -> localeCompare(hp[a].title, hp[b].title)
    [] criteria = "artist" -> localeCompare(hp[a].artist, hp[b].artist)
    [] criteria = "duration" -> hp[a].duration - hp[b].duration
    [] criteria = "addedAt" -> hp[a].addedAt - hp[b].addedAt
    [] OTHER -> 0

\* the test that takes the left run's element in merge
takeLeft1(comparison, order) ==
  (order = "asc" /\ comparison <= 0) \/ (order = "desc" /\ comparison >= 0)

takeLeft2(comparison, order) ==
  IF order = "asc" THEN comparison <= 0 ELSE comparison > 0

shouldTakeLeft(e, comparison, order) ==
  IF e = "first" THEN takeLeft1(comparison, order) ELSE takeLeft2(comparison, order)

\* a merge that forgets the rest of the run that is not exhausted
RECURSIVE mergeWithoutRest(_, _, _, _, _, _)
mergeWithoutRest(e, hp, left, right, criteria, order) ==
  IF left = <<>> \/ right = <<>> THEN <<>>
  ELSE IF shouldTakeLeft(e, compare(hp, left[1], right[1], criteria), order)
    THEN <<left[1]>> \o mergeWithoutRest(e, hp, Tail(left), right, criteria, order)
    ELSE <<right[1]>> \o mergeWithoutRest(e, hp, left, Tail(right), criteria, order)

\* PlaylistSorter.merge
RECURSIVE merge(_, _, _, _, _, _)
merge(e, hp, left, right, criteria, order) ==
  IF left = <<>> \/ right = <<>> THEN left \o right
  ELSE IF shouldTakeLeft(e, compare(hp, left[1], right[1], criteria), order)
    THEN <<left[1]>> \o merge(e, hp, Tail(left), right, criteria, order)
    ELSE <<right[1]>> \o merge(e, hp, left, Tail(right), criteria, order)

\* PlaylistSorter.mergeSort
RECURSIVE mergeSort(_, _, _, _, _)
mergeSort(e, hp, songs, criteria, order) ==
  IF Len(songs) <= 1 THEN songs
  ELSE LET mid == Len(songs) \div 2
           left == SubSeq(songs, 1, mid)
           right == SubSeq(songs, mid + 1, Len(songs))
       IN merge(e, hp, mergeSort(e, hp, left, criteria, order),
                mergeSort(e, hp, right, criteria, order), criteria, order)

\* the partition of quickSort: the songs that compare below, equal to and above
\* the pivot, each in the order of the input
partition(hp, songs, criteria) ==
  LET pivot == songs[(Len(songs) \div 2) + 1]
  IN [left |-> SelectSeq(songs, LAMBDA song : compare(hp, song, pivot, criteria) < 0),
      equal |-> SelectSeq(songs, LAMBDA song : ~(compare(hp, song, pivot, criteria) < 0)
                                              /\ ~(compare(hp, song, pivot, criteria) > 0)),
      right |-> SelectSeq(songs, LAMBDA song : ~(compare(hp, song, pivot, criteria) < 0)
                                              /\ compare(hp, song, pivot, criteria) > 0)]

\* PlaylistSorter.quickSort (second engine)
RECURSIVE quickSort(_, _, _, _)
quickSort(hp, songs, criteria, order) ==
  IF Len(songs) <= 1 THEN songs
  ELSE LET parts == partition(hp, songs, criteria)
           sortedLeft == quickSort(hp, parts.left, criteria, order)
           sortedRight == quickSort(hp, parts.right, criteria, order)
       IN IF order = "asc" THEN sortedLeft \o parts.equal \o sortedRight
          ELSE sortedRight \o parts.equal \o sortedLeft

\* ---------------------------------------------------------------- analytics
\* PlaywiseAnalytics.getTotalDuration
RECURSIVE getTotalDuration(_, _)
getTotalDuration(hp, songs) ==
  IF songs = <<>> THEN 0
  ELSE hp[Head(songs)].duration + getTotalDuration(hp, Tail(songs))

\* PlaywiseAnalytics.getLongestSong: reduce keeps the earlier of two equally long
getLongestSong(hp, songs) ==
  LET RECURSIVE Reduce(_, _)
      Reduce(longest, rest) ==
        IF rest = <<>> THEN longest
        ELSE Reduce(IF hp[Head(rest)].duration > hp[longest].duration
                      THEN Head(rest) ELSE longest, Tail(rest))
  IN IF songs = <<>> THEN Null ELSE Reduce(Head(songs), Tail(songs))

\* PlaywiseAnalytics.getShortestSong
getShortestSong(hp, songs) ==
  LET RECURSIVE Reduce(_, _)
      Reduce(shortest, rest) ==
        IF rest = <<>> THEN shortest
        ELSE Reduce(IF hp[Head(rest)].duration < hp[shortest].duration
                      THEN Head(rest) ELSE shortest, Tail(rest))
  IN IF songs = <<>> THEN Null ELSE Reduce(Head(songs), Tail(songs))

\* PlaywiseAnalytics.getTopLongestSongs: a copy sorted by falling duration (the
\* sort is stable), cut to count
TopCount == 5
getTopLongestSongs(hp, songs) ==
  LET RECURSIVE Sort(_, _)
      Sort(done, rest) ==
        IF rest = <<>> THEN done
        ELSE LET k == Cardinality({i \in 1..Len(done) :
                                     hp[done[i]].duration >= hp[Head(rest)].duration})
             IN Sort(SubSeq(done, 1, k) \o <<Head(rest)>> \o SubSeq(done, k + 1, Len(done)),
                     Tail(rest))
      all == Sort(<<>>, songs)
  IN SubSeq(all, 1, IF Len(all) < TopCount THEN Len(all) ELSE TopCount)

\* SongRatingTree.collectStats / getRatingStats: the length of each bucket
RECURSIVE collectStats(_, _, _)
collectStats(rn, node, stats) ==
  IF node = Null THEN stats
  ELSE collectStats(rn, rn[node].right,
                    collectStats(rn, rn[node].left,
                                 Put(stats, rn[node].rating, Len(rn[node].songs))))

getRatingStats(rn, rt) == collectStats(rn, rt, <<>>)

\* ------------------------------------------------------------------ actions
\* no call is inside a loop
Idle == [loop |-> "idle", current |-> Null, temp |-> Null, i |-> 0, n |-> 0,
         criteria |-> "", work |-> <<>>]

\* the handler calls of the second page that can be in flight together
MaxHandlers == 2
Handlers == 1..MaxHandlers

\* the last call and what it returned: ok for a boolean result (also: a non-null result), val
\* for the Song returned (its id), Null for none
Ret(op, ok, val) == [op |-> op, ok |-> ok, val |-> val]

SetPL(p) ==
  /\ nodes' = p.nodes
  /\ head' = p.head
  /\ tail' = p.tail
  /\ size' = p.size
  /\ heap' = p.heap
  /\ nextId' = p.nextId

Indices == -1..size

\* an id no addSong has built: Math.random() draws are 1 and above
UnknownId == MakeId(0, 0)

\* the ids the page can pass: those of the songs created so far, and an unknown one
Ids == {heap[song].id : song \in DOMAIN heap} \cup {UnknownId}
RatingInputs == {MinRating - 1, MinRating, 3, MaxRating, MaxRating + 1}

\* time passes: Date.now() and new Date() read a later clock
Tick ==
  /\ now' = now + 1
  /\ UNCHANGED <<engine, titleMap, frame, page, heap, nextId, nodes, head, tail, size, songMap, rnodes, root,
                 ratings, history, maxSize, blockedArtists, sorted, ret>>

\* PlaywiseEngine.addSong (handleAddSong); random is what Math.random() returns
\* to the playlist's addSong
AddSong(title, artist, duration, random) ==
  /\ IF isBlocked(blockedArtists, artist)
       THEN /\ ret' = Ret("addSong", FALSE, Null)
            /\ UNCHANGED <<nodes, head, tail, size, heap, nextId, songMap, titleMap>>
       ELSE /\ SetPL(addSongPL(PL, title, artist, duration, random))
            /\ songMap' = lookupAddSong(songMap, heap', nextId)
            /\ titleMap' = titleMapAdd(engine, titleMap, heap', nextId)
            /\ ret' = Ret("addSong", TRUE, nextId)
  /\ UNCHANGED <<engine, frame, page, now, rnodes, root, ratings, history, maxSize, blockedArtists,
                 sorted>>

\* a delete that also purges the deleted song from the history
DeleteSongPurging(index) ==
  LET songs == getAllSongs(PL)
  IN /\ IF deleteSongOk(engine, PL, index)
          THEN /\ SetPL(deleteSongPL(engine, PL, index))
               /\ songMap' = removeSong(songMap, heap[songs[index + 1]].id)
               /\ titleMap' = titleMapRemove(engine, titleMap, songMap, heap,
                                             heap[songs[index + 1]].id)
               /\ history' = SelectSeq(history, LAMBDA song : song # songs[index + 1])
               /\ ret' = Ret("deleteSong", TRUE, songs[index + 1])
          ELSE /\ ret' = Ret("deleteSong", FALSE, Null)
               /\ UNCHANGED <<nodes, head, tail, size, heap, nextId, songMap, titleMap,
                              history>>
     /\ UNCHANGED <<engine, frame, page, now, rnodes, root, ratings, maxSize, blockedArtists, sorted>>

\* handleDeleteSong
DeleteSong(index) ==
  LET songs == getAllSongs(PL)
  IN /\ IF deleteSongOk(engine, PL, index)
          THEN /\ SetPL(deleteSongPL(engine, PL, index))
               /\ songMap' = removeSong(songMap, heap[songs[index + 1]].id)
               /\ titleMap' = titleMapRemove(engine, titleMap, songMap, heap,
                                             heap[songs[index + 1]].id)
               /\ ret' = Ret("deleteSong", TRUE, songs[index + 1])
          ELSE /\ ret' = Ret("deleteSong", FALSE, Null)
               /\ UNCHANGED <<nodes, head, tail, size, heap, nextId, songMap, titleMap>>
     /\ UNCHANGED <<engine, frame, page, now, rnodes, root, ratings, history, maxSize,
                    blockedArtists, sorted>>

\* handleMoveSong
MoveSong(fromIndex, toIndex) ==
  /\ SetPL(moveSongPL(engine, PL, fromIndex, toIndex))
  /\ ret' = Ret("moveSong", moveSongOk(engine, PL, fromIndex, toIndex), Null)
  /\ UNCHANGED <<engine, titleMap, frame, page, now, songMap, rnodes, root, ratings, history, maxSize,
                 blockedArtists, sorted>>

\* Playlist.insertAt / PlaylistEngine.insertAtIndex called on the engine's
\* playlist with a Song and an index from 0 to the size
InsertAtIndex(index, song) ==
  /\ 0 <= index
  /\ index <= size
  /\ SetPL(IF engine = "first" THEN insertAt1(PL, index, song)
           ELSE insertAtIndex2(PL, index, song))
  /\ ret' = Ret("insertAt", TRUE, Null)
  /\ UNCHANGED <<engine, titleMap, frame, page, now, songMap, rnodes, root, ratings, history, maxSize,
                 blockedArtists, sorted>>

\* handleReversePlaylist
ReversePlaylist ==
  /\ SetPL(reversePlaylistPL(engine, PL))
  /\ ret' = Ret("reversePlaylist", TRUE, Null)
  /\ UNCHANGED <<engine, titleMap, frame, page, now, songMap, rnodes, root, ratings, history, maxSize,
                 blockedArtists, sorted>>

\* while (getSize() > 0) deleteSong(0)
RECURSIVE Clear(_, _)
Clear(e, p) == IF p.size > 0 /\ deleteSongOk(e, p, 0) THEN Clear(e, deleteSongPL(e, p, 0)) ELSE p

\* sortedSongs.forEach(song => playlist.addSong(song.title, song.artist, song.duration));
\* randoms are the values Math.random() returns to the calls, in order
RECURSIVE Rebuild(_, _, _, _)
Rebuild(p, hp, songs, randoms) ==
  IF songs = <<>> THEN p
  ELSE Rebuild(addSongPL(p, hp[songs[1]].title, hp[songs[1]].artist, hp[songs[1]].duration,
                         randoms[1]),
               hp, Tail(songs), Tail(randoms))

\* draws of Math.random() that differ from each other and from every earlier one
FreshRandom == nextId
FreshRandoms(n) == [i \in 1..n |-> FreshRandom + i - 1]

\* handleSortPlaylist
SortPlaylist(criteria, order) ==
  LET songs == getAllSongs(PL)
      sortedSongs == mergeSort(engine, heap, songs, criteria, order)
  IN /\ SetPL(Rebuild(Clear(engine, PL), heap, sortedSongs, FreshRandoms(Len(songs))))
     /\ ret' = Ret("sortPlaylist", TRUE, Null)
     /\ UNCHANGED <<engine, titleMap, frame, page, now, songMap, rnodes, root, ratings, history, maxSize,
                    blockedArtists, sorted>>

\* PlaywiseEngine.playSong (handlePlaySong)
PlaySong(songId) ==
  LET song == getSongById(songMap, songId)
  IN /\ IF song = Null
          THEN /\ ret' = Ret("playSong", FALSE, Null)
               /\ UNCHANGED history
          ELSE /\ history' = IF engine = "first" THEN addPlay(history, song)
                             ELSE addToHistory(history, maxSize, song)
               /\ ret' = Ret("playSong", TRUE, Null)
     /\ UNCHANGED <<engine, titleMap, frame, page, heap, nextId, now, nodes, head, tail, size, songMap, rnodes,
                    root, ratings, maxSize, blockedArtists, sorted>>

\* the entries of the rating tree
TreeCount == LET RECURSIVE Sum(_)
                 Sum(S) == IF S = {} THEN 0
                           ELSE LET a == CHOOSE x \in S : TRUE
                                IN Len(rnodes[a].songs) + Sum(S \ {a})
             IN Sum(DOMAIN rnodes)

\* PlaywiseEngine.rateSong (handleRateSong)
RateSong(songId, rating) ==
  LET song == getSongById(songMap, songId)
      r == insertNode(rnodes, root, song, rating)
  IN /\ IF rating < MinRating \/ rating > MaxRating \/ song = Null
          THEN /\ ret' = Ret("rateSong", FALSE, Null)
               /\ UNCHANGED <<heap, rnodes, root, ratings>>
          ELSE /\ rnodes' = r.rnodes
               /\ root' = r.node
               /\ IF engine = "first"
                    THEN /\ ratings' = Put(ratings, songId, rating)
                         /\ UNCHANGED heap
                    ELSE /\ heap' = [heap EXCEPT ![song].rating = rating]
                         /\ UNCHANGED ratings
               /\ ret' = Ret("rateSong", TRUE, Null)
     /\ UNCHANGED <<engine, titleMap, frame, page, nextId, now, nodes, head, tail, size, songMap, history,
                    maxSize, blockedArtists, sorted>>

\* SongRatingTree.deleteSong (second engine)
TreeDeleteSong(songId) ==
  /\ engine = "second"
  /\ rnodes' = deleteFromNode(rnodes, heap, root, songId).rnodes
  /\ ret' = Ret("ratingTree.deleteSong", deleteFromNode(rnodes, heap, root, songId).ok, Null)
  /\ UNCHANGED <<engine, titleMap, frame, page, heap, nextId, now, nodes, head, tail, size, songMap, root,
                 ratings, history, maxSize, blockedArtists, sorted>>

\* handleUndoLastPlay
UndoLastPlay ==
  /\ history' = popped(history)
  /\ ret' = Ret("undoLastPlay", undoLastPlay(history) # Null, undoLastPlay(history))
  /\ UNCHANGED <<engine, titleMap, frame, page, heap, nextId, now, nodes, head, tail, size, songMap, rnodes,
                 root, ratings, maxSize, blockedArtists, sorted>>

\* handlePlaySong(songId) followed at once by handleUndoLastPlay()
PlayThenUndo(songId) ==
  LET song == getSongById(songMap, songId)
      played == IF song = Null THEN history
                ELSE IF engine = "first" THEN addPlay(history, song)
                ELSE addToHistory(history, maxSize, song)
  IN /\ history' = popped(played)
     /\ ret' = Ret("undoLastPlay", undoLastPlay(played) # Null, undoLastPlay(played))
     /\ UNCHANGED <<engine, titleMap, frame, page, heap, nextId, now, nodes, head, tail, size, songMap, rnodes,
                    root, ratings, maxSize, blockedArtists, sorted>>

\* SongLookup.addSong(song) of the second engine, called on the class
LookupAddSong(song) ==
  /\ engine = "second"
  /\ songMap' = lookupAddSong(songMap, heap, song)
  /\ titleMap' = titleMapAdd(engine, titleMap, heap, song)
  /\ ret' = Ret("lookup.addSong", TRUE, Null)
  /\ UNCHANGED <<engine, frame, page, heap, nextId, now, nodes, head, tail, size, rnodes,
                 root, ratings, history, maxSize, blockedArtists, sorted>>

\* SongLookup.removeSong(songId) of the second engine, called on the class
LookupRemoveSong(songId) ==
  /\ engine = "second"
  /\ songMap' = removeSong(songMap, songId)
  /\ titleMap' = titleMapRemove(engine, titleMap, songMap, heap, songId)
  /\ ret' = Ret("lookup.removeSong", songId \in DOMAIN songMap, Null)
  /\ UNCHANGED <<engine, frame, page, heap, nextId, now, nodes, head, tail, size, rnodes,
                 root, ratings, history, maxSize, blockedArtists, sorted>>

\* HistoryStack.getHistory() (first engine)
GetHistory ==
  /\ engine = "first"
  /\ ret' = Ret("getHistory", TRUE, getHistory(history))
  /\ UNCHANGED <<engine, titleMap, frame, page, heap, nextId, now, nodes, head, tail, size, songMap, rnodes,
                 root, ratings, history, maxSize, blockedArtists, sorted>>

\* PlaybackHistory.getRecentHistory(limit) (second engine)
GetRecentHistory(limit) ==
  /\ engine = "second"
  /\ ret' = Ret("getRecentHistory", TRUE, getRecentHistory(history, limit))
  /\ UNCHANGED <<engine, titleMap, frame, page, heap, nextId, now, nodes, head, tail, size, songMap, rnodes,
                 root, ratings, history, maxSize, blockedArtists, sorted>>

\* PlaywiseEngine.exportSnapshot of the first engine; the blocked names are a
\* set here, an array in the order of blocking there
exportSnapshot1 ==
  [songs |-> getAllSongs(PL),
   history |-> getHistory(history),
   blockedArtists |-> blockedArtists,
   ratings |-> ratings,
   timestamp |-> now]

\* PlaywiseEngine.exportSnapshot of the second engine
exportSnapshot2 ==
  LET allSongs == getAllSongs(PL)
  IN [totalSongs |-> Len(allSongs),
      totalDuration |-> getTotalDuration(heap, allSongs),
      longestSong |-> getLongestSong(heap, allSongs),
      shortestSong |-> getShortestSong(heap, allSongs),
      topLongestSongs |-> getTopLongestSongs(heap, allSongs),
      recentHistory |-> getRecentHistory(history, DefaultLimit),
      ratingStats |-> getRatingStats(rnodes, root),
      blockedArtists |-> blockedArtists,
      historySize |-> Len(history)]

\* a call of exportSnapshot
ExportSnapshot ==
  /\ ret' = Ret("exportSnapshot", TRUE,
                IF engine = "first" THEN exportSnapshot1 ELSE exportSnapshot2)
  /\ UNCHANGED <<engine, titleMap, frame, page, heap, nextId, now, nodes, head, tail, size, songMap, rnodes,
                 root, ratings, history, maxSize, blockedArtists, sorted>>

\* a block that also takes the artist's songs out of the lookup
AddToBlocklistPurging(artist) ==
  /\ blockedArtists' = addToBlocklist(blockedArtists, artist)
  /\ songMap' = [id \in {i \in DOMAIN songMap :
                            toLowerCase(heap[songMap[i]].artist) # toLowerCase(artist)}
                  |-> songMap[id]]
  /\ ret' = Ret("addToBlocklist", TRUE, Null)
  /\ UNCHANGED <<engine, titleMap, frame, page, heap, nextId, now, nodes, head, tail, size, rnodes,
                 root, ratings, history, maxSize, sorted>>

\* handleAddToBlocklist
AddToBlocklist(artist) ==
  /\ blockedArtists' = addToBlocklist(blockedArtists, artist)
  /\ ret' = Ret("addToBlocklist", TRUE, Null)
  /\ UNCHANGED <<engine, titleMap, frame, page, heap, nextId, now, nodes, head, tail, size, songMap, rnodes,
                 root, ratings, history, maxSize, sorted>>

\* handleRemoveFromBlocklist
RemoveFromBlocklist(artist) ==
  /\ blockedArtists' = removeFromBlocklist(blockedArtists, artist)
  /\ ret' = Ret("removeFromBlocklist", TRUE, Null)
  /\ UNCHANGED <<engine, titleMap, frame, page, heap, nextId, now, nodes, head, tail, size, songMap, rnodes,
                 root, ratings, history, maxSize, sorted>>

\* ------------------------------------------------------------ loops, by step
\* A call that is inside one of its loops: frame holds the loop and its local
\* variables, and each step is one iteration.  JavaScript runs a call to its
\* end before the next begins, so no other call starts while frame is not Idle.
Busy == frame.loop # "idle"
Frame(loop) == [Idle EXCEPT !.loop = loop]

\* deleteSong(index) passes its range check and starts the walk to the node
DeleteBegin(index) ==
  /\ ~Busy
  /\ index >= 0
  /\ index < size
  /\ frame' = [Frame("walk") EXCEPT !.current = head, !.n = index]
  /\ UNCHANGED <<engine, titleMap, page, heap, nextId, now, nodes, head, tail, size,
                 songMap, rnodes, root, ratings, history, maxSize, blockedArtists, sorted,
                 ret>>

\* the walk goes on: i < index, and in the second engine current is not null
Walking ==
  /\ frame.i < frame.n
  /\ engine = "second" => frame.current # Null

\* for (let i = 0; i < index [&& current]; i++) current = current.next; in the
\* first engine current!.next of null throws and ends the call
WalkStep ==
  /\ frame.loop = "walk"
  /\ Walking
  /\ IF frame.current = Null
       THEN /\ frame' = Idle
            /\ ret' = Ret("deleteSong", FALSE, Null)
       ELSE /\ frame' = [frame EXCEPT !.current = nodes[frame.current].next, !.i = @ + 1]
            /\ UNCHANGED ret
  /\ UNCHANGED <<engine, titleMap, page, heap, nextId, now, nodes, head, tail, size,
                 songMap, rnodes, root, ratings, history, maxSize, blockedArtists, sorted>>

\* the walk is over: deleteSong unlinks the node and handleDeleteSong takes the
\* song out of the lookup
WalkEnd ==
  /\ frame.loop = "walk"
  /\ ~Walking
  /\ frame' = Idle
  /\ LET songs == getAllSongs(PL)
     IN IF deleteSongOk(engine, PL, frame.n)
          THEN /\ SetPL(deleteSongPL(engine, PL, frame.n))
               /\ songMap' = removeSong(songMap, heap[songs[frame.n + 1]].id)
               /\ titleMap' = titleMapRemove(engine, titleMap, songMap, heap,
                                             heap[songs[frame.n + 1]].id)
               /\ ret' = Ret("deleteSong", TRUE, songs[frame.n + 1])
          ELSE /\ ret' = Ret("deleteSong", FALSE, Null)
               /\ UNCHANGED <<nodes, head, tail, size, heap, nextId, songMap, titleMap>>
  /\ UNCHANGED <<engine, page, now, rnodes, root, ratings, history, maxSize,
                 blockedArtists, sorted>>

\* reversePlaylist starts: the second engine swaps head and tail first
ReverseBegin ==
  /\ ~Busy
  /\ frame' = [Frame("swap") EXCEPT !.current = head]
  /\ IF engine = "first" THEN UNCHANGED <<head, tail>>
     ELSE head' = tail /\ tail' = head
  /\ UNCHANGED <<engine, titleMap, page, heap, nextId, now, nodes, size, songMap, rnodes,
                 root, ratings, history, maxSize, blockedArtists, sorted, ret>>

\* while (current): swap next and prev of current and go to what was its next
SwapStep ==
  /\ frame.loop = "swap"
  /\ frame.current # Null
  /\ nodes' = [nodes EXCEPT ![frame.current] =
                 [@ EXCEPT !.next = nodes[frame.current].prev,
                           !.prev = nodes[frame.current].next]]
  /\ frame' = [frame EXCEPT !.temp = IF engine = "first" THEN nodes[frame.current].prev
                                     ELSE nodes[frame.current].next,
                            !.current = nodes[frame.current].next]
  /\ UNCHANGED <<engine, titleMap, page, heap, nextId, now, head, tail, size, songMap,
                 rnodes, root, ratings, history, maxSize, blockedArtists, sorted, ret>>

\* the swap loop is over: the second engine is done, the first sets head from
\* temp and starts to look for the tail
SwapEnd ==
  /\ frame.loop = "swap"
  /\ frame.current = Null
  /\ IF engine = "first"
       THEN /\ head' = IF frame.temp # Null THEN nodes[frame.temp].prev ELSE head
            /\ frame' = [Frame("tail") EXCEPT !.current = head']
            /\ UNCHANGED ret
       ELSE /\ frame' = Idle
            /\ ret' = Ret("reversePlaylist", TRUE, Null)
            /\ UNCHANGED head
  /\ UNCHANGED <<engine, titleMap, page, heap, nextId, now, nodes, tail, size, songMap,
                 rnodes, root, ratings, history, maxSize, blockedArtists, sorted>>

\* while (current && current.next) current = current.next
TailStep ==
  /\ frame.loop = "tail"
  /\ frame.current # Null
  /\ nodes[frame.current].next # Null
  /\ frame' = [frame EXCEPT !.current = nodes[frame.current].next]
  /\ UNCHANGED <<engine, titleMap, page, heap, nextId, now, nodes, head, tail, size,
                 songMap, rnodes, root, ratings, history, maxSize, blockedArtists, sorted,
                 ret>>

\* this.tail = current
TailEnd ==
  /\ frame.loop = "tail"
  /\ IF frame.current = Null THEN TRUE ELSE nodes[frame.current].next = Null
  /\ tail' = frame.current
  /\ frame' = Idle
  /\ ret' = Ret("reversePlaylist", TRUE, Null)
  /\ UNCHANGED <<engine, titleMap, page, heap, nextId, now, nodes, head, size, songMap,
                 rnodes, root, ratings, history, maxSize, blockedArtists, sorted>>

\* handleSortPlaylist has the sorted songs and starts to clear the playlist
SortBegin(criteria, order) ==
  /\ ~Busy
  /\ frame' = [Frame("clear") EXCEPT
                 !.work = <<mergeSort(engine, heap, getAllSongs(PL), criteria, order)>>]
  /\ UNCHANGED <<engine, titleMap, page, heap, nextId, now, nodes, head, tail, size,
                 songMap, rnodes, root, ratings, history, maxSize, blockedArtists, sorted,
                 ret>>

\* a clear loop that deletes past the end
ClearStepPastEnd ==
  /\ frame.loop = "clear"
  /\ size > 0
  /\ SetPL(deleteSongPL(engine, PL, size))
  /\ UNCHANGED <<engine, titleMap, frame, page, now, songMap, rnodes, root, ratings,
                 history, maxSize, blockedArtists, sorted, ret>>

\* while (getSize() > 0) deleteSong(0)
ClearStep ==
  /\ frame.loop = "clear"
  /\ size > 0
  /\ SetPL(deleteSongPL(engine, PL, 0))
  /\ UNCHANGED <<engine, titleMap, frame, page, now, songMap, rnodes, root, ratings,
                 history, maxSize, blockedArtists, sorted, ret>>

\* the playlist is empty: the sorted songs are added again
ClearEnd ==
  /\ frame.loop = "clear"
  /\ ~(size > 0)
  /\ SetPL(Rebuild(PL, heap, frame.work[1], FreshRandoms(Len(frame.work[1]))))
  /\ frame' = Idle
  /\ ret' = Ret("sortPlaylist", TRUE, Null)
  /\ UNCHANGED <<engine, titleMap, page, now, songMap, rnodes, root, ratings,
                 history, maxSize, blockedArtists, sorted>>

\* searchByRating(rating) starts at the root
FindBegin(rating) ==
  /\ ~Busy
  /\ frame' = [Frame("findNode") EXCEPT !.current = root, !.n = rating]
  /\ UNCHANGED <<engine, titleMap, page, heap, nextId, now, nodes, head, tail, size,
                 songMap, rnodes, root, ratings, history, maxSize, blockedArtists, sorted,
                 ret>>

\* findRatingNode / findNode goes to the left or the right child
FindStep ==
  /\ frame.loop = "findNode"
  /\ frame.current # Null
  /\ rnodes[frame.current].rating # frame.n
  /\ frame' = [frame EXCEPT !.current = IF frame.n < rnodes[frame.current].rating
                                          THEN rnodes[frame.current].left
                                          ELSE rnodes[frame.current].right]
  /\ UNCHANGED <<engine, titleMap, page, heap, nextId, now, nodes, head, tail, size,
                 songMap, rnodes, root, ratings, history, maxSize, blockedArtists, sorted,
                 ret>>

\* the node is found or there is none
FindEnd ==
  /\ frame.loop = "findNode"
  /\ IF frame.current = Null THEN TRUE ELSE rnodes[frame.current].rating = frame.n
  /\ frame' = Idle
  /\ ret' = Ret("searchByRating", frame.current # Null, Null)
  /\ UNCHANGED <<engine, titleMap, page, heap, nextId, now, nodes, head, tail, size,
                 songMap, rnodes, root, ratings, history, maxSize, blockedArtists, sorted>>

\* the sorters the engines have
Sorters(e) == IF e = "first" THEN {"mergeSort"} ELSE {"mergeSort", "quickSort"}

\* mergeSort / quickSort is called with the songs of the playlist: work is the
\* list of the calls still to run, each with the array it is given
SorterBegin(sorter, criteria) ==
  /\ ~Busy
  /\ frame' = [Frame(sorter) EXCEPT !.criteria = criteria, !.work = <<getAllSongs(PL)>>]
  /\ UNCHANGED <<engine, titleMap, page, heap, nextId, now, nodes, head, tail, size,
                 songMap, rnodes, root, ratings, history, maxSize, blockedArtists, sorted,
                 ret>>

\* one call: an array of at most one song returns, a longer one calls itself
\* on its two halves (mergeSort) or on the songs below and above the pivot
\* (quickSort)
SorterStep ==
  /\ frame.loop \in {"mergeSort", "quickSort"}
  /\ frame.work # <<>>
  /\ LET songs == Head(frame.work)
         mid == Len(songs) \div 2
         parts == partition(heap, songs, frame.criteria)
     IN frame' = [frame EXCEPT !.work =
                    IF Len(songs) <= 1 THEN Tail(frame.work)
                    ELSE IF frame.loop = "mergeSort"
                      THEN <<SubSeq(songs, 1, mid), SubSeq(songs, mid + 1, Len(songs))>>
                             \o Tail(frame.work)
                      ELSE <<parts.left, parts.right>> \o Tail(frame.work)]
  /\ UNCHANGED <<engine, titleMap, page, heap, nextId, now, nodes, head, tail, size,
                 songMap, rnodes, root, ratings, history, maxSize, blockedArtists, sorted,
                 ret>>

\* no call is left
SorterEnd ==
  /\ frame.loop \in {"mergeSort", "quickSort"}
  /\ frame.work = <<>>
  /\ frame' = Idle
  /\ ret' = Ret(frame.loop, TRUE, Null)
  /\ UNCHANGED <<engine, titleMap, page, heap, nextId, now, nodes, head, tail, size,
                 songMap, rnodes, root, ratings, history, maxSize, blockedArtists, sorted>>

\* the running call goes on
Step ==
  \/ WalkStep
  \/ WalkEnd
  \/ SwapStep
  \/ SwapEnd
  \/ TailStep
  \/ TailEnd
  \/ ClearStep
  \/ ClearEnd
  \/ FindStep
  \/ FindEnd
  \/ SorterStep
  \/ SorterEnd

\* no call of the sorter yet
\* --------------------------------------------- the page over the backend
\* The second page keeps a snapshot and calls a backend through apiClient.
\* The backend's state is the number of mutations it has applied; a snapshot
\* is the state it was taken from. A handler is: await apiClient.<mutation>;
\* await updateSnapshot(), and several of them can be waiting at once.
MaxCalls == 3

\* everything of the engines, which the page's handlers do not touch
catalog == <<engine, titleMap, frame, heap, nextId, now, nodes, head, tail, size, songMap,
             rnodes, root, ratings, history, maxSize, blockedArtists, sorted, ret>>

\* the mutations called so far: those applied and those on their way
Called == backend + Cardinality({h \in Handlers : pc[h] = "mutating"})

\* a handler is called and sends its mutation (APIClient.request: fetch)
HandlerCall(h) ==
  /\ pc[h] \in {"idle", "done"}
  /\ Called < MaxCalls
  /\ pc' = [pc EXCEPT ![h] = "mutating"]
  /\ UNCHANGED <<backend, resp, snapshot, catalog>>

\* the backend applies the mutation of a handler and answers
BackendMutate(h) ==
  /\ pc[h] = "mutating"
  /\ backend' = backend + 1
  /\ pc' = [pc EXCEPT ![h] = "mutated"]
  /\ UNCHANGED <<resp, snapshot, catalog>>

\* the answer arrives: the handler goes on to updateSnapshot, which sends
\* apiClient.getSnapshot()
GetSnapshot(h) ==
  /\ pc[h] = "mutated"
  /\ pc' = [pc EXCEPT ![h] = "fetching"]
  /\ UNCHANGED <<backend, resp, snapshot, catalog>>

\* the backend answers a snapshot request with its state
BackendSnapshot(h) ==
  /\ pc[h] = "fetching"
  /\ resp' = [resp EXCEPT ![h] = backend]
  /\ pc' = [pc EXCEPT ![h] = "fetched"]
  /\ UNCHANGED <<backend, snapshot, catalog>>

\* the snapshot arrives: updateSnapshot calls setSnapshot(newSnapshot) and the
\* handler ends
SetSnapshot(h) ==
  /\ pc[h] = "fetched"
  /\ snapshot' = resp[h]
  /\ pc' = [pc EXCEPT ![h] = "done"]
  /\ UNCHANGED <<backend, resp, catalog>>

NotSorted == [criteria |-> "", order |-> "", songs |-> <<>>]

\* new PlaywiseEngine()
Init ==
  /\ engine \in Engines
  /\ heap = <<>>
  /\ nextId = 1
  /\ now = 0
  /\ nodes = <<>>
  /\ head = Null
  /\ tail = Null
  /\ size = 0
  /\ songMap = <<>>
  /\ titleMap = <<>>
  /\ frame = Idle
  /\ backend = 0
  /\ pc = [h \in Handlers |-> "idle"]
  /\ resp = [h \in Handlers |-> 0]
  /\ snapshot = 0
  /\ rnodes = <<>>
  /\ root = Null
  /\ ratings = <<>>
  /\ history = <<>>
  /\ maxSize = DefaultMaxSize
  /\ blockedArtists = {}
  /\ sorted = NotSorted
  /\ ret = Ret("new", TRUE, Null)

\* the engine and its page: every handler, within the bounds
Next ==
  \/ /\ nextId <= MaxIds
     /\ \E s \in NewSongs : AddSong(s[1], s[2], s[3], FreshRandom)
  \/ \E index \in Indices : DeleteSong(index)
  \/ \E fromIndex \in Indices, toIndex \in Indices : MoveSong(fromIndex, toIndex)
  \/ ReversePlaylist
  \/ /\ nextId + size - 1 <= MaxIds
     /\ \E criteria \in SortCriteria(engine), order \in SortOrder : SortPlaylist(criteria, order)
  \/ /\ Len(history) < MaxPlays
     /\ \E songId \in Ids : PlaySong(songId)
  \/ /\ TreeCount < MaxRates
     /\ \E songId \in Ids, rating \in RatingInputs : RateSong(songId, rating)
  \/ UndoLastPlay
  \/ \E artist \in Artists : AddToBlocklist(artist)
  \/ \E artist \in Artists : RemoveFromBlocklist(artist)
  \/ /\ now < MaxClock
     /\ Tick

Spec == Init /\ [][Next]_vars

DenySongs == {<<<<"a">>, <<"D", "r">>, 3>>, <<<<"a">>, <<"q">>, 3>>}
OneSong == {<<<<"a">>, <<"q">>, 3>>}
ListSongs == {<<<<"a">>, <<"q">>, 3>>, <<<<"b">>, <<"q">>, 3>>}

\* the playlist alone: the handlers that change the order
NextPlaylist ==
  \/ /\ nextId <= ListIds
     /\ \E s \in ListSongs : AddSong(s[1], s[2], s[3], FreshRandom)
  \/ \E index \in Indices : DeleteSong(index)
  \/ \E fromIndex \in Indices, toIndex \in Indices : MoveSong(fromIndex, toIndex)
  \/ ReversePlaylist
  \/ /\ nextId + size - 1 <= ListIds
     /\ \E criteria \in SortCriteria(engine), order \in SortOrder : SortPlaylist(criteria, order)

SpecPlaylist == Init /\ [][NextPlaylist]_vars

\* moves alone, over playlists one song longer than in the playlist specification
NextMove ==
  \/ /\ nextId <= ListIds + 1
     /\ \E s \in OneSong : AddSong(s[1], s[2], s[3], FreshRandom)
  \/ \E fromIndex \in Indices, toIndex \in Indices : MoveSong(fromIndex, toIndex)

SpecMove == Init /\ [][NextMove]_vars

\* the insertion of the move on its own: a Song of the catalog put at any
\* index up to the size of the playlist
NextInsert ==
  \/ /\ nextId <= MaxIds
     /\ \E s \in OneSong : AddSong(s[1], s[2], s[3], FreshRandom)
  \/ \E index \in Indices : DeleteSong(index)
  \/ /\ size < MaxLen
     /\ nextId <= ListIds
     /\ \E index \in Indices, song \in DOMAIN heap : InsertAtIndex(index, song)

SpecInsert == Init /\ [][NextInsert]_vars

\* the id of the song created first
FirstId == {heap[song].id : song \in DOMAIN heap \cap {1}}

\* moves in a catalog whose first song is played and rated
NextMoveCatalog ==
  \/ /\ nextId <= ListIds
     /\ \E s \in OneSong : AddSong(s[1], s[2], s[3], FreshRandom)
  \/ \E fromIndex \in Indices, toIndex \in Indices : MoveSong(fromIndex, toIndex)
  \/ /\ Len(history) < MaxPlays
     /\ \E songId \in FirstId : PlaySong(songId)
  \/ /\ TreeCount < MaxRates
     /\ \E songId \in FirstId : RateSong(songId, MaxRating)

SpecMoveCatalog == Init /\ [][NextMoveCatalog]_vars

\* the blocklist and what it guards: songs added, played and rated
NextDenylist ==
  \/ /\ nextId <= MaxIds
     /\ \E s \in DenySongs : AddSong(s[1], s[2], s[3], FreshRandom)
  \/ /\ Len(history) < MaxPlays
     /\ \E songId \in Ids : PlaySong(songId)
  \/ /\ TreeCount < MaxRates
     /\ \E songId \in Ids : RateSong(songId, MaxRating)
  \/ \E artist \in Artists : AddToBlocklist(artist)
  \/ \E artist \in Artists : RemoveFromBlocklist(artist)

SpecDenylist == Init /\ [][NextDenylist]_vars

\* the rating tree: two and more ratings of one catalog
NextRating ==
  \/ /\ nextId <= MaxIds
     /\ \E s \in OneSong : AddSong(s[1], s[2], s[3], FreshRandom)
  \/ \E index \in Indices : DeleteSong(index)
  \/ /\ TreeCount < MaxTreeRates
     /\ \E songId \in Ids, rating \in RatingInputs : RateSong(songId, rating)

SpecRating == Init /\ [][NextRating]_vars

\* the rating tree with its own delete: songs rated, rated again, taken out
NextTree ==
  \/ /\ nextId <= MaxIds
     /\ \E s \in OneSong : AddSong(s[1], s[2], s[3], FreshRandom)
  \/ /\ TreeCount < MaxTreeRates
     /\ \E songId \in Ids, rating \in RatingInputs : RateSong(songId, rating)
  \/ \E songId \in Ids : TreeDeleteSong(songId)

SpecTree == Init /\ [][NextTree]_vars

\* new PlaywiseEngine() with a history of a small configured size: the second
\* engine's PlaybackHistory takes maxSize as a constructor parameter
InitHistory ==
  /\ engine \in Engines
  /\ heap = <<>>
  /\ nextId = 1
  /\ now = 0
  /\ nodes = <<>>
  /\ head = Null
  /\ tail = Null
  /\ size = 0
  /\ songMap = <<>>
  /\ titleMap = <<>>
  /\ frame = Idle
  /\ backend = 0
  /\ pc = [h \in Handlers |-> "idle"]
  /\ resp = [h \in Handlers |-> 0]
  /\ snapshot = 0
  /\ rnodes = <<>>
  /\ root = Null
  /\ ratings = <<>>
  /\ history = <<>>
  /\ maxSize \in IF engine = "second" THEN 1..MaxHist ELSE {DefaultMaxSize}
  /\ blockedArtists = {}
  /\ sorted = NotSorted
  /\ ret = Ret("new", TRUE, Null)

\* the history: plays and undos over a catalog, past the configured size
NextHistory ==
  \/ /\ nextId <= MaxIds
     /\ \E s \in OneSong : AddSong(s[1], s[2], s[3], FreshRandom)
  \/ \E index \in Indices : DeleteSong(index)
  \/ /\ Len(history) <= MaxHist
     /\ \E songId \in Ids : PlaySong(songId)
  \/ /\ TreeCount < MaxRates
     /\ \E songId \in Ids : RateSong(songId, MaxRating)
  \/ UndoLastPlay

SpecHistory == InitHistory /\ [][NextHistory]_vars

\* a play undone at once, on histories below and at their size
NextRoundTrip ==
  \/ /\ nextId <= MaxIds
     /\ \E s \in OneSong : AddSong(s[1], s[2], s[3], FreshRandom)
  \/ \E index \in Indices : DeleteSong(index)
  \/ /\ Len(history) <= MaxHist
     /\ \E songId \in Ids : PlaySong(songId)
  \/ \E songId \in Ids : PlayThenUndo(songId)

SpecRoundTrip == InitHistory /\ [][NextRoundTrip]_vars

\* the limits a caller asks for: none, some, more than the history holds
Limits == 0..(MaxHist + 2)

\* the history read back: plays of different songs, then a snapshot
NextSnapshot ==
  \/ /\ nextId <= MaxIds
     /\ \E s \in OneSong : AddSong(s[1], s[2], s[3], FreshRandom)
  \/ /\ Len(history) <= MaxHist
     /\ \E songId \in Ids : PlaySong(songId)
  \/ UndoLastPlay
  \/ GetHistory
  \/ \E limit \in Limits : GetRecentHistory(limit)

SpecSnapshot == InitHistory /\ [][NextSnapshot]_vars

\* one song played over and over, past the default history size
NextPlays ==
  \/ /\ nextId <= 1
     /\ \E s \in ListSongs : AddSong(s[1], s[2], s[3], FreshRandom)
  \/ /\ Len(history) <= DefaultMaxSize
     /\ \E songId \in Ids : PlaySong(songId)
  \/ UndoLastPlay

SpecPlays == Init /\ [][NextPlays]_vars

CatalogSongs == {<<<<"a">>, <<"D", "r">>, 3>>}
CatalogArtists == {<<"d", "r">>}

\* plays over a catalog that songs enter and leave, with ratings and a blocklist
NextCatalog ==
  \/ /\ nextId <= MaxIds
     /\ \E s \in CatalogSongs : AddSong(s[1], s[2], s[3], FreshRandom)
  \/ \E index \in Indices : DeleteSong(index)
  \/ /\ Len(history) <= MaxPlays
     /\ \E songId \in Ids : PlaySong(songId)
  \/ /\ TreeCount < MaxRates
     /\ \E songId \in Ids : RateSong(songId, MaxRating)
  \/ \E artist \in CatalogArtists : AddToBlocklist(artist)
  \/ \E artist \in CatalogArtists : RemoveFromBlocklist(artist)

SpecCatalog == Init /\ [][NextCatalog]_vars

\* the snapshot of a catalog with moves, ratings, plays and a blocklist
NextExport ==
  \/ /\ nextId <= MaxIds
     /\ \E s \in CatalogSongs : AddSong(s[1], s[2], s[3], FreshRandom)
  \/ \E fromIndex \in Indices, toIndex \in Indices : MoveSong(fromIndex, toIndex)
  \/ /\ Len(history) < MaxPlays
     /\ \E songId \in Ids : PlaySong(songId)
  \/ /\ TreeCount < MaxTreeRates
     /\ \E songId \in Ids, rating \in {MinRating, MaxRating} : RateSong(songId, rating)
  \/ \E artist \in CatalogArtists : AddToBlocklist(artist)
  \/ ExportSnapshot

SpecExport == Init /\ [][NextExport]_vars

\* snapshots of a catalog whose songs are rated and deleted
NextRatedExport ==
  \/ /\ nextId <= MaxIds
     /\ \E s \in OneSong : AddSong(s[1], s[2], s[3], FreshRandom)
  \/ \E index \in Indices : DeleteSong(index)
  \/ /\ TreeCount < MaxTreeRates
     /\ \E songId \in Ids, rating \in RatingInputs : RateSong(songId, rating)
  \/ ExportSnapshot

SpecRatedExport == Init /\ [][NextRatedExport]_vars

\* the page: handlers called while others wait for their answers
InitPage == Init /\ engine = "second"

NextPage ==
  \E h \in Handlers :
    \/ HandlerCall(h)
    \/ BackendMutate(h)
    \/ GetSnapshot(h)
    \/ BackendSnapshot(h)
    \/ SetSnapshot(h)

SpecPage == InitPage /\ [][NextPage]_vars

\* the songs of the loops: the titles b and a in turn
LoopSong(k) == <<IF k % 2 = 1 THEN <<"b">> ELSE <<"a">>, <<"q">>, 3>>

\* the ratings of the loops: 3, then 1, then 5, and so on
LoopRating(k) == <<3, MinRating, MaxRating>>[((k - 1) % 3) + 1]

\* the calls with loops, step by step, on playlists and rating trees that
\* adds and ratings build: the first song is rated before the second is added
NextLoops ==
  \/ /\ ~Busy
     /\ nextId <= MaxIds
     /\ AddSong(LoopSong(nextId)[1], LoopSong(nextId)[2], LoopSong(nextId)[3], FreshRandom)
  \/ /\ ~Busy
     /\ nextId = 2
     /\ TreeCount < MaxTreeRates
     /\ \E songId \in FirstId : RateSong(songId, LoopRating(TreeCount + 1))
  \/ \E index \in Indices : DeleteBegin(index)
  \/ ReverseBegin
  \/ /\ nextId + size - 1 <= MaxIds + 2
     /\ \E criteria \in SortCriteria(engine), order \in SortOrder : SortBegin(criteria, order)
  \/ \E rating \in RatingInputs : FindBegin(rating)
  \/ \E sorter \in Sorters(engine), criteria \in SortCriteria(engine) :
       SorterBegin(sorter, criteria)
  \/ Step

\* the engine goes on with the call it is in
SpecLoops == Init /\ [][NextLoops]_vars /\ WF_vars(Step)

\* what Math.random() can return
Randoms == 1..MaxRandom

\* ids as they are built: songs added at any time with any draw of Math.random()
NextIds ==
  \/ /\ nextId <= MaxIds
     /\ \E s \in ListSongs, random \in Randoms : AddSong(s[1], s[2], s[3], random)
  \/ \E index \in Indices : DeleteSong(index)
  \/ /\ now < MaxClock
     /\ Tick

SpecIds == Init /\ [][NextIds]_vars

\* songs a caller can hand to the engine: one well-formed, the others with an
\* empty title, an empty artist, a zero or a negative duration
AnySongs ==
  {<<<<"a">>, <<"q">>, 3>>, <<NoText, <<"q">>, 3>>, <<<<"a">>, NoText, 3>>,
   <<<<"a">>, <<"q">>, 0>>, <<<<"a">>, <<"q">>, -1>>}

\* the engine called with any arguments
NextAnySongs ==
  \/ /\ nextId <= MaxIds
     /\ \E s \in AnySongs : AddSong(s[1], s[2], s[3], FreshRandom)
  \/ /\ Len(history) < MaxPlays
     /\ \E songId \in Ids : PlaySong(songId)
  \/ /\ TreeCount < MaxRates
     /\ \E songId \in Ids : RateSong(songId, MaxRating)

SpecAnySongs == Init /\ [][NextAnySongs]_vars

\* the sorter as a pure function: some songs, then one call of mergeSort
SortSongs ==
  {NewSong("second", MakeId(0, 1), <<"a">>, <<"q">>, 3, 0),
   NewSong("second", MakeId(0, 2), <<"a">>, <<"Q">>, 5, 0),
   NewSong("second", MakeId(1, 3), <<"b">>, <<"q">>, 3, 1)}

InitSort ==
  /\ engine \in Engines
  /\ \E n \in 0..MaxLen : heap \in [1..n -> SortSongs]
  /\ nextId = Len(heap) + 1
  /\ now = 1
  /\ nodes = <<>>
  /\ head = Null
  /\ tail = Null
  /\ size = 0
  /\ songMap = <<>>
  /\ titleMap = <<>>
  /\ frame = Idle
  /\ backend = 0
  /\ pc = [h \in Handlers |-> "idle"]
  /\ resp = [h \in Handlers |-> 0]
  /\ snapshot = 0
  /\ rnodes = <<>>
  /\ root = Null
  /\ ratings = <<>>
  /\ history = <<>>
  /\ maxSize = DefaultMaxSize
  /\ blockedArtists = {}
  /\ sorted = NotSorted
  /\ ret = Ret("new", TRUE, Null)

\* the songs handed to the sorter: every Song, in the order of creation
SortInput == [i \in 1..Len(heap) |-> i]

\* PlaylistSorter.mergeSort(songs, criteria, order)
MergeSort(criteria, order) ==
  /\ sorted' = [criteria |-> criteria, order |-> order,
                songs |-> mergeSort(engine, heap, SortInput, criteria, order)]
  /\ ret' = Ret("mergeSort", TRUE, Null)
  /\ UNCHANGED <<engine, titleMap, frame, page, heap, nextId, now, nodes, head, tail, size, songMap, rnodes,
                 root, ratings, history, maxSize, blockedArtists>>

NextSort == \E criteria \in SortCriteria(engine), order \in SortOrder : MergeSort(criteria, order)

SpecSort == InitSort /\ [][NextSort]_vars

\* PlaylistSorter.quickSort(songs, criteria, order) (second engine)
QuickSort(criteria, order) ==
  /\ engine = "second"
  /\ sorted' = [criteria |-> criteria, order |-> order,
                songs |-> quickSort(heap, SortInput, criteria, order)]
  /\ ret' = Ret("quickSort", TRUE, Null)
  /\ UNCHANGED <<engine, titleMap, frame, page, heap, nextId, now, nodes, head, tail, size, songMap, rnodes,
                 root, ratings, history, maxSize, blockedArtists>>

\* the lookup as a class: Songs titled a, A and b, added and removed
LookupSongs ==
  <<NewSong("second", MakeId(0, 1), <<"a">>, <<"q">>, 3, 0),
    NewSong("second", MakeId(0, 2), <<"A">>, <<"q">>, 3, 0),
    NewSong("second", MakeId(1, 3), <<"b">>, <<"q">>, 3, 1)>>

InitLookup ==
  /\ engine = "second"
  /\ heap = LookupSongs
  /\ nextId = Len(heap) + 1
  /\ now = 1
  /\ nodes = <<>>
  /\ head = Null
  /\ tail = Null
  /\ size = 0
  /\ songMap = <<>>
  /\ titleMap = <<>>
  /\ frame = Idle
  /\ backend = 0
  /\ pc = [h \in Handlers |-> "idle"]
  /\ resp = [h \in Handlers |-> 0]
  /\ snapshot = 0
  /\ rnodes = <<>>
  /\ root = Null
  /\ ratings = <<>>
  /\ history = <<>>
  /\ maxSize = DefaultMaxSize
  /\ blockedArtists = {}
  /\ sorted = NotSorted
  /\ ret = Ret("new", TRUE, Null)

\* the entries of the title index
TitleEntries == {<<k, i>> \in (DOMAIN titleMap) \X (1..(MaxLen + 1)) : i <= Len(titleMap[k])}

NextLookup ==
  \/ /\ Cardinality(TitleEntries) <= MaxLen
     /\ \E song \in DOMAIN heap : LookupAddSong(song)
  \/ \E songId \in Ids : LookupRemoveSong(songId)

SpecLookup == InitLookup /\ [][NextLookup]_vars

\* both sorters of an engine over the same songs
NextSorters ==
  \/ \E criteria \in SortCriteria(engine), order \in SortOrder : MergeSort(criteria, order)
  \/ \E criteria \in SortCriteria(engine), order \in SortOrder : QuickSort(criteria, order)

SpecSorters == InitSort /\ [][NextSorters]_vars

\* ------------------------------------------------------------------- claims
\* the playlist as the page reads it, and sequences with 0-based indices
Playlist == getAllSongs(PL)
InRange(i) == 0 <= i /\ i < size
RemoveAt(s, i) == SubSeq(s, 1, i) \o SubSeq(s, i + 2, Len(s))
InsertAt(s, i, x) == SubSeq(s, 1, i) \o <<x>> \o SubSeq(s, i + 1, Len(s))

\* identities: of the playlist's entries, of the registry, of the rating tree
IdOf(song) == heap[song].id
PlaylistIds == {IdOf(Playlist[i]) : i \in 1..Len(Playlist)}
RegistryIds == DOMAIN songMap
BucketSongs(n) == {rnodes[n].songs[i] : i \in 1..Len(rnodes[n].songs)}
BucketIds(n) == {IdOf(song) : song \in BucketSongs(n)}
TreeIds == UNION {BucketIds(n) : n \in DOMAIN rnodes}

\* the rating a track has now: the first engine keeps it in its ratings map, the
\* second in the Song's rating field (0: none)
CurrentRating(song) ==
  IF engine = "first"
    THEN (IF IdOf(song) \in DOMAIN ratings THEN ratings[IdOf(song)] ELSE 0)
    ELSE heap[song].rating

\* C1: the playlist and the registry have the same length and hold the same
\* track identities after every operation.
C1_MembershipConsistency ==
  /\ Len(Playlist) = Cardinality(RegistryIds)
  /\ PlaylistIds = RegistryIds

\* C2: every identity in a bucket of the rating tree is in the registry and its
\* current rating is the key of that bucket.
C2_RatingIndexIntegrity ==
  \A n \in DOMAIN rnodes :
    \A song \in BucketSongs(n) :
      IdOf(song) \in RegistryIds /\ CurrentRating(song) = rnodes[n].rating

\* C3: deleting at an index in range removes the track there from the playlist,
\* the registry and the rating tree; at an index out of range it returns false
\* and changes nothing.
C3_DeleteEverywhere ==
  [][\A index \in Indices :
       DeleteSong(index) =>
         IF InRange(index)
           THEN /\ ret'.ok
                /\ Playlist' = RemoveAt(Playlist, index)
                /\ IdOf(Playlist[index + 1]) \notin RegistryIds'
                /\ IdOf(Playlist[index + 1]) \notin TreeIds'
           ELSE /\ ~ret'.ok
                /\ UNCHANGED <<nodes, head, tail, size, heap, songMap, rnodes, root,
                               ratings, history>>]_vars

\* two names that differ in letter case at most
EqualUpToCase(s, t) ==
  /\ Len(s) = Len(t)
  /\ \A i \in 1..Len(s) : LowerChar(s[i]) = LowerChar(t[i])

\* the blocklist holds a name equal to this artist up to letter case
Denied(artist) == \E b \in blockedArtists : EqualUpToCase(b, artist)

\* C4: a blocked name denies every artist equal to it up to letter case until it
\* is unblocked; addSong of a denied artist returns no Song and leaves playlist,
\* registry, rating tree and history as they were; addSong returns no Song for
\* no other reason.
C4_DenylistEnforced ==
  [][/\ \A a \in Artists :
          AddToBlocklist(a) => \A b \in Artists : EqualUpToCase(a, b) => Denied(b)'
     /\ \A b \in Artists :
          (Denied(b) /\ ~\E u \in Artists : EqualUpToCase(u, b) /\ RemoveFromBlocklist(u))
            => Denied(b)'
     /\ \A s \in DenySongs \cup NewSongs :
          AddSong(s[1], s[2], s[3], FreshRandom) =>
            /\ Denied(s[2]) <=> ret'.val = Null
            /\ Denied(s[2]) =>
                 /\ ~ret'.ok
                 /\ UNCHANGED <<nodes, head, tail, size, heap, nextId, songMap, rnodes,
                                root, ratings, history, blockedArtists>>]_vars

\* an addSong was rejected while the catalog, the tree and the history held songs
C4_Witness ==
  /\ ret.op = "addSong"
  /\ ~ret.ok
  /\ size > 0
  /\ rnodes # <<>>
  /\ history # <<>>
  /\ <<"d", "r">> \in blockedArtists

\* C5: two songs whose keys compare equal keep their input order in the result
\* of mergeSort, ascending and descending (ids are the input positions).
C5_SortStable ==
  ret.op = "mergeSort" =>
    \A i \in 1..Len(sorted.songs) : \A j \in 1..Len(sorted.songs) :
      (i < j /\ compare(heap, sorted.songs[i], sorted.songs[j], sorted.criteria) = 0)
        => sorted.songs[i] < sorted.songs[j]

\* C6: a successful moveSong(from, to) with from # to, both in range, leaves the
\* playlist equal to the old one with the element at from removed and put back
\* at index to - 1 (from < to) or to (from > to) of the shortened sequence.
C6_MoveSemantics ==
  [][\A f \in Indices, t \in Indices :
       (MoveSong(f, t) /\ ret'.ok /\ f # t /\ InRange(f) /\ InRange(t))
         => Playlist' = InsertAt(RemoveAt(Playlist, f), IF f < t THEN t - 1 ELSE t,
                                 Playlist[f + 1])]_vars

\* a move has changed the order of a three-song playlist
C6_Witness ==
  ret.op = "moveSong" /\ ret.ok /\ size = 3 /\ Playlist = <<2, 1, 3>>

\* C7: moveSong with an index out of range returns false and changes nothing;
\* with from = to in range it returns true and changes nothing.
C7_MoveRejectsAndNoOp ==
  [][\A f \in Indices, t \in Indices :
       MoveSong(f, t) =>
         /\ (~InRange(f) \/ ~InRange(t)) => (~ret'.ok /\ Playlist' = Playlist)
         /\ (InRange(f) /\ f = t) => (ret'.ok /\ Playlist' = Playlist)]_vars

\* C8: the history never holds more than the configured maximum of entries.
C8_HistoryBound == Len(history) <= maxSize

C10_RateSong ==
  [][\A id \in Ids, r \in RatingInputs :
       RateSong(id, r) =>
         IF r < 1 \/ r > 5 \/ id \notin RegistryIds
           THEN /\ ~ret'.ok
                /\ UNCHANGED <<nodes, head, tail, size, heap, nextId, songMap, rnodes,
                               root, ratings, history, blockedArtists>>
           ELSE /\ ret'.ok
                /\ CurrentRating(songMap[id])' = r
                /\ \E i \in 1..Len(searchByRating(rnodes, root, r)') :
                     IdOf(searchByRating(rnodes, root, r)'[i]) = id
                /\ \E n \in DOMAIN rnodes' : rnodes'[n].rating = r /\ id \in BucketIds(n)'
    ]_vars

\* a song was rated a second time, into another bucket
C10_Witness ==
  /\ ret.op = "rateSong"
  /\ ret.ok
  /\ Cardinality(DOMAIN rnodes) = 2
  /\ \E id \in RegistryIds : \A n \in DOMAIN rnodes : id \in BucketIds(n)

\* C11: playSong of an id that is not in the registry returns false and leaves
\* the history as it was; of an id in the registry it returns true and the song
\* is the newest history entry; either way playlist, registry, rating tree and
\* blocklist are as before.
C11_PlaySong ==
  [][\A id \in Ids :
       PlaySong(id) =>
         /\ IF id \notin RegistryIds
              THEN ~ret'.ok /\ history' = history
              ELSE /\ ret'.ok
                   /\ history' # <<>>
                   /\ history'[Len(history')] = songMap[id]
         /\ Playlist' = Playlist
         /\ UNCHANGED <<heap, songMap, rnodes, root, ratings, blockedArtists>>]_vars

\* a second, different song was played in an engine holding ratings and a
\* blocked artist
C11_Witness ==
  /\ ret.op = "playSong"
  /\ ret.ok
  /\ Len(history) = 2
  /\ history[1] # history[2]
  /\ rnodes # <<>>
  /\ blockedArtists # {}

\* the identities issued so far
Issued == {IdOf(song) : song \in DOMAIN heap}

\* C12: an addSong that is not rejected returns a Song whose id was never issued
\* before, stores it in the registry under that id and puts it at the end of
\* the playlist behind the entries already there, in their order; no two
\* entries of the playlist share an id, and every registry entry is stored
\* under its own id.
C12_AddSongFresh ==
  [][/\ \A s \in ListSongs \cup NewSongs, random \in Randoms \cup {FreshRandom} :
          (AddSong(s[1], s[2], s[3], random) /\ ret'.ok) =>
            /\ heap'[ret'.val].id \notin Issued
            /\ getSongById(songMap', heap'[ret'.val].id) = ret'.val
            /\ Playlist' = Append(Playlist, ret'.val)
     /\ Cardinality(PlaylistIds') = Len(Playlist')
     /\ \A id \in RegistryIds' : heap'[songMap'[id]].id = id]_vars

\* the identities of a sequence of songs, in order
IdsOf(songs) == [i \in 1..Len(songs) |-> IdOf(songs[i])]

\* C13: sorting changes the order of the playlist only: afterwards it holds the
\* identities it held before, in the order the sorter gives for the playlist
\* as it was, and the registry and the rating tree are as before.
C13_SortKeepsIdentities ==
  [][\A criteria \in Criteria2, order \in SortOrder :
       SortPlaylist(criteria, order) =>
         /\ IdsOf(Playlist)' = IdsOf(mergeSort(engine, heap, Playlist, criteria, order))
         /\ UNCHANGED <<songMap, rnodes, root, ratings>>]_vars

\* C14: deleting a song that was played leaves its history entry where it was:
\* the history, what the snapshot shows of it and what undoLastPlay would
\* return are the same after the deletion, and the entry still carries the
\* song's fields.
C14_HistoryOutlivesCatalog ==
  [][\A index \in Indices :
       (DeleteSong(index) /\ ret'.ok) =>
         /\ history' = history
         /\ snapshotHistory(engine, history)' = snapshotHistory(engine, history)
         /\ undoLastPlay(history)' = undoLastPlay(history)
         /\ \A i \in 1..Len(history) : heap'[history'[i]] = heap[history[i]]]_vars

\* the song played last was deleted and is still the newest history entry
C14_Witness ==
  /\ ret.op = "deleteSong"
  /\ ret.ok
  /\ history # <<>>
  /\ ret.val = history[Len(history)]
  /\ IdOf(ret.val) \notin RegistryIds
  /\ snapshotHistory(engine, history)[IF engine = "first" THEN Len(history) ELSE 1] = ret.val

\* names to ask the blocklist about: the page's artists in other spellings, and
\* a name that is none of them
Names == Artists \cup {<<"D", "R">>, <<"Q">>, <<"d">>}

\* C15: every stored name is in lower case; after blocking x, isBlocked(y) holds
\* for every y equal to x up to letter case, and for any other y exactly when
\* it held before; unblocking y makes isBlocked false for every x equal to y up
\* to letter case.
C15_CaseInsensitive ==
  [][/\ \A b \in blockedArtists' : \A i \in 1..Len(b) : ~IsUpper(b[i])
     /\ \A x \in Artists :
          AddToBlocklist(x) =>
            \A y \in Names :
              isBlocked(blockedArtists', y)
                <=> (EqualUpToCase(x, y) \/ isBlocked(blockedArtists, y))
     /\ \A y \in Artists :
          RemoveFromBlocklist(y) =>
            \A x \in Names : EqualUpToCase(x, y) => ~isBlocked(blockedArtists', x)]_vars

\* a name was unblocked while another stayed blocked under its lower-case form
C15_Witness ==
  /\ ret.op = "removeFromBlocklist"
  /\ blockedArtists = {<<"d", "r">>}
  /\ isBlocked(blockedArtists, <<"D", "R">>)
  /\ ~isBlocked(blockedArtists, <<"Q">>)

\* C16: unblocking a name that is not blocked (in any spelling) changes neither
\* the blocklist nor anything else the engine holds; blocking a name that is
\* already blocked leaves the blocklist as it was.
C16_BlocklistIdempotent ==
  [][\A a \in Artists :
       /\ (RemoveFromBlocklist(a) /\ ~Denied(a)) =>
            /\ blockedArtists' = blockedArtists
            /\ Playlist' = Playlist
            /\ UNCHANGED <<heap, songMap, rnodes, root, ratings, history>>
       /\ (AddToBlocklist(a) /\ Denied(a)) => blockedArtists' = blockedArtists]_vars

\* an unblock left another name blocked, and songs, ratings and plays in place
C16_Witness ==
  /\ ret.op = "removeFromBlocklist"
  /\ blockedArtists = {<<"q">>}
  /\ size > 0
  /\ rnodes # <<>>
  /\ history # <<>>

\* C17: addSong with an empty title, an empty artist or a duration that is not
\* positive is rejected and leaves playlist, registry, rating tree and history
\* as they were.
C17_ValidationRejects ==
  [][\A s \in AnySongs :
       (AddSong(s[1], s[2], s[3], FreshRandom) /\ (s[1] = NoText \/ s[2] = NoText \/ s[3] <= 0))
         => /\ ~ret'.ok
            /\ Playlist' = Playlist
            /\ UNCHANGED <<songMap, rnodes, root, ratings, history>>]_vars

\* the n newest entries of a history, newest first
NewestFirst(h, n) == [i \in 1..n |-> h[Len(h) + 1 - i]]

\* C18: a snapshot of the history with a limit of 0 or more returns the
\* min(limit, size) newest entries, newest first, and leaves the history as it
\* was (the first engine's snapshot takes no limit: it returns every entry).
C18_Snapshot ==
  [][/\ \A limit \in Limits :
          (ret'.op = "getRecentHistory" /\ GetRecentHistory(limit)) =>
            /\ ret'.val = NewestFirst(history, IF limit < Len(history) THEN limit
                                                ELSE Len(history))
            /\ history' = history
     /\ (ret'.op = "getHistory" /\ GetHistory) =>
          /\ ret'.val = NewestFirst(history, Len(history))
          /\ history' = history]_vars

\* C19: mergeSort returns a permutation of its input in which each element's
\* key is at most (ascending) or at least (descending) the key of the next, and
\* leaves the input as it was.
C19_SorterSorts ==
  [][\A criteria \in Criteria2, order \in SortOrder :
       MergeSort(criteria, order) =>
         LET out == sorted'.songs
         IN /\ Len(out) = Len(SortInput)
            /\ \A song \in DOMAIN heap :
                 Cardinality({i \in 1..Len(out) : out[i] = song}) = 1
            /\ \A i \in 1..(Len(out) - 1) :
                 IF order = "asc" THEN compare(heap, out[i], out[i + 1], criteria) <= 0
                 ELSE compare(heap, out[i], out[i + 1], criteria) >= 0
            /\ SortInput' = SortInput
            /\ heap' = heap]_vars

\* three songs came out of a descending sort in another order than they went in
C19_Witness ==
  /\ ret.op = "mergeSort"
  /\ sorted.order = "desc"
  /\ Len(sorted.songs) = 3
  /\ sorted.songs # SortInput
  /\ \E i \in 1..2 : compare(heap, sorted.songs[i], sorted.songs[i + 1], sorted.criteria) > 0

\* the playlist read from the tail along the prev links
RECURSIVE CollectBack(_, _, _)
CollectBack(ns, current, fuel) ==
  IF current = Null \/ fuel = 0 THEN <<>>
  ELSE <<ns[current].song>> \o CollectBack(ns, ns[current].prev, fuel - 1)

Backward == CollectBack(nodes, tail, Cardinality(DOMAIN nodes) + 1)

\* C20: deleteSong at an index outside 0..size-1 returns false and changes
\* nothing; at an index inside it removes the element there and no other, the
\* size goes down by one and the others keep their order, read from the head
\* and from the tail, whether the element was the first, the last or the only one.
C20_RemoveAt ==
  [][\A index \in Indices :
       DeleteSong(index) =>
         IF InRange(index)
           THEN /\ ret'.ok
                /\ Playlist' = RemoveAt(Playlist, index)
                /\ Backward' = reverse(Playlist')
                /\ size' = size - 1
                /\ size' = Len(Playlist')
           ELSE /\ ~ret'.ok
                /\ Playlist' = Playlist
                /\ UNCHANGED <<nodes, head, tail, size>>]_vars

\* the middle one of three songs was deleted
C20_Witness ==
  /\ ret.op = "deleteSong"
  /\ ret.ok
  /\ ret.val = 2
  /\ Playlist = <<1, 3>>
  /\ Backward = <<3, 1>>

\* C21: reversePlaylist turns the playlist into its reverse, for the empty
\* playlist, one song and more; size and identities stay; a second reverse gives
\* the playlist back.
C21_Reverse ==
  [][ReversePlaylist =>
       /\ Playlist' = reverse(Playlist)
       /\ Backward' = Playlist
       /\ size' = size
       /\ PlaylistIds' = PlaylistIds
       /\ getAllSongs(reversePlaylistPL(engine, PL')) = Playlist]_vars

\* three songs were reversed
C21_Witness ==
  /\ ret.op = "reversePlaylist"
  /\ Playlist = <<3, 2, 1>>
  /\ Backward = <<1, 2, 3>>

\* the nodes reachable from the head along the next links, in order
RECURSIVE ChainFrom(_, _, _)
ChainFrom(ns, current, fuel) ==
  IF current = Null \/ fuel = 0 THEN <<>>
  ELSE <<current>> \o ChainFrom(ns, ns[current].next, fuel - 1)

Chain == ChainFrom(nodes, head, Cardinality(DOMAIN nodes) + 1)

\* C22: the links of the playlist are consistent after every operation: a node's
\* next points back to it with prev and its prev points to it with next, the
\* head has no prev and the tail no next, the tail is the last node reachable
\* from the head, and size is the number of reachable nodes.
C22_LinkedList ==
  /\ \A n \in DOMAIN nodes :
       /\ nodes[n].next # Null =>
            (nodes[n].next \in DOMAIN nodes /\ nodes[nodes[n].next].prev = n)
       /\ nodes[n].prev # Null =>
            (nodes[n].prev \in DOMAIN nodes /\ nodes[nodes[n].prev].next = n)
  /\ head # Null => (head \in DOMAIN nodes /\ nodes[head].prev = Null)
  /\ tail # Null => (tail \in DOMAIN nodes /\ nodes[tail].next = Null)
  /\ (head = Null) <=> (tail = Null)
  /\ Chain # <<>> => Chain[Len(Chain)] = tail
  /\ size = Len(Chain)
  /\ \A i \in 1..Len(Chain) : \A j \in 1..Len(Chain) : i # j => Chain[i] # Chain[j]

\* a playlist of three songs after a move that changed its order
C22_Witness ==
  /\ ret.op = "moveSong"
  /\ ret.ok
  /\ Len(Chain) = 3
  /\ Playlist = <<2, 3, 1>>

\* C23: moveSong(0, 2) on the playlist [1, 2, 3, 4] gives [2, 3, 1, 4]; after any
\* successful moveSong(from, to) with from # to the moved song is at index to.
C23_MovedToIndex ==
  [][\A f \in Indices, t \in Indices :
       (MoveSong(f, t) /\ ret'.ok /\ f # t) =>
         /\ Playlist'[t + 1] = Playlist[f + 1]
         /\ (Playlist = <<1, 2, 3, 4>> /\ f = 0 /\ t = 2) => Playlist' = <<2, 3, 1, 4>>]_vars

\* C23, amended: moveSong(0, 2) on the playlist [1, 2, 3, 4] gives [2, 1, 3, 4];
\* after any successful moveSong(from, to) with from # to the moved song is at
\* index to - 1 when from < to and at index to when from > to.
C23_MovedToAdjustedIndex ==
  [][\A f \in Indices, t \in Indices :
       (MoveSong(f, t) /\ ret'.ok /\ f # t) =>
         /\ f < t => Playlist'[t] = Playlist[f + 1]
         /\ f > t => Playlist'[t + 1] = Playlist[f + 1]
         /\ (Playlist = <<1, 2, 3, 4>> /\ f = 0 /\ t = 2) => Playlist' = <<2, 1, 3, 4>>]_vars

\* a move on four songs left the first song at index 1
C23_Witness ==
  /\ ret.op = "moveSong"
  /\ ret.ok
  /\ Playlist = <<2, 1, 3, 4>>

\* the elements of a sequence, each with the number of times it occurs
Multiset(seq) ==
  [x \in {seq[i] : i \in 1..Len(seq)} |-> Cardinality({i \in 1..Len(seq) : seq[i] = x})]

\* C24: moveSong, whatever the indices, leaves the size of the playlist and the
\* identities in it, each as often as before, unchanged and creates no Song; it
\* leaves the registry, the rating tree and the history as they were.
C24_MoveChangesOrderOnly ==
  [][(\E f \in Indices, t \in Indices : MoveSong(f, t)) =>
       /\ size' = size
       /\ heap' = heap
       /\ UNCHANGED <<songMap, rnodes, root, ratings, history>>
       /\ \A before \in {Playlist}, after \in {Playlist'} :
            Multiset(after) = Multiset(before)
       /\ \A before \in {IdsOf(Playlist)}, after \in {IdsOf(Playlist)'} :
            Multiset(after) = Multiset(before)]_vars

\* a move reordered three songs of which one was played and one rated
C24_Witness ==
  /\ ret.op = "moveSong"
  /\ ret.ok
  /\ Playlist = <<3, 1, 2>>
  /\ history # <<>>
  /\ rnodes # <<>>

\* C25: a history entry is a copy of the song as it was played: no later call
\* (a rating, or any other change of the catalog) changes a field of an entry
\* that is in the history.
C25_HistoryByValue ==
  [][\A i \in 1..Len(history) : heap'[history[i]] = heap[history[i]]]_vars


\* the tracks filed under a rating: the bucket list of the node with that key,
\* read from the nodes themselves
NodesOf(rating) == {n \in DOMAIN rnodes : rnodes[n].rating = rating}
Filed(rating) ==
  IF NodesOf(rating) = {} THEN <<>> ELSE rnodes[CHOOSE n \in NodesOf(rating) : TRUE].songs

\* what a search for a rating returns now
Search(rating) == searchByRating(rnodes, root, rating)

\* C26: searchByRating(rating) returns the bucket list filed under that rating
\* (empty when no node has the key or its bucket was emptied), and the list is
\* in insertion order: a rating appends its song to the list of its key and
\* leaves the other lists alone, a delete takes one entry out of one list and
\* keeps the order of the rest.
C26_SearchByRating ==
  /\ [](\A rating \in RatingInputs :
          /\ Cardinality(NodesOf(rating)) <= 1
          /\ searchByRating(rnodes, root, rating) = Filed(rating))
  /\ [][/\ \A id \in Ids, r \in RatingInputs :
             ret'.op = "rateSong" /\ ret'.ok /\ RateSong(id, r) =>
               /\ Search(r)' = Append(Search(r), songMap[id])
               /\ \A rating \in RatingInputs \ {r} : Search(rating)' = Search(rating)
        /\ \A id \in Ids :
             ret'.op = "ratingTree.deleteSong" /\ ret'.ok /\ TreeDeleteSong(id) =>
               \E r \in RatingInputs :
                 /\ \E i \in 1..Len(Search(r)) :
                      /\ IdOf(Search(r)[i]) = id
                      /\ Search(r)' = RemoveAt(Search(r), i - 1)
                 /\ \A rating \in RatingInputs \ {r} : Search(rating)' = Search(rating)
       ]_vars

\* a bucket emptied by a delete next to one that holds two songs, the later
\* created song first
C26_Witness ==
  /\ \E n \in DOMAIN rnodes : rnodes[n].songs = <<>> /\ searchByRating(rnodes, root, rnodes[n].rating) = <<>>
  /\ \E n \in DOMAIN rnodes : rnodes[n].songs = <<2, 1>> /\ n # root

\* the nodes of the subtree at a node
RECURSIVE Subtree(_)
Subtree(node) ==
  IF node = Null THEN {} ELSE {node} \cup Subtree(rnodes[node].left) \cup Subtree(rnodes[node].right)

\* C27: the rating tree is a binary search tree on the rating key: the keys in
\* a node's left subtree are smaller than its key and those in its right
\* subtree greater, no two nodes have the same key, every node hangs under the
\* root, and getAllRatings lists the buckets with strictly ascending keys.
C27_TreeOrdered ==
  /\ Subtree(root) = DOMAIN rnodes
  /\ \A n \in DOMAIN rnodes :
       /\ \A l \in Subtree(rnodes[n].left) : rnodes[l].rating < rnodes[n].rating
       /\ \A r \in Subtree(rnodes[n].right) : rnodes[r].rating > rnodes[n].rating
  /\ \A n \in DOMAIN rnodes, m \in DOMAIN rnodes : rnodes[n].rating = rnodes[m].rating => n = m
  /\ Len(getAllRatings(rnodes, root)) = Cardinality(DOMAIN rnodes)
  /\ \A i \in 1..Len(getAllRatings(rnodes, root)), j \in 1..Len(getAllRatings(rnodes, root)) :
       i < j => getAllRatings(rnodes, root)[i].rating < getAllRatings(rnodes, root)[j].rating

\* three keys, the root between its two children, after a delete
C27_Witness ==
  /\ ret.op = "ratingTree.deleteSong"
  /\ ret.ok
  /\ Cardinality(DOMAIN rnodes) = 3
  /\ rnodes[root].left # Null
  /\ rnodes[root].right # Null

\* C28: SongRatingTree.deleteSong takes one entry with the identity out of one
\* bucket list and changes nothing else: the nodes, their keys and children
\* and the other lists are as before, also when the list becomes empty; for an
\* identity in no bucket it returns false and changes nothing.
C28_LazyDelete ==
  [][\A id \in Ids :
       ret'.op = "ratingTree.deleteSong" /\ TreeDeleteSong(id) =>
         /\ root' = root
         /\ DOMAIN rnodes' = DOMAIN rnodes
         /\ \A n \in DOMAIN rnodes :
              /\ rnodes'[n].rating = rnodes[n].rating
              /\ rnodes'[n].left = rnodes[n].left
              /\ rnodes'[n].right = rnodes[n].right
         /\ IF id \in TreeIds
              THEN /\ ret'.ok
                   /\ \E n \in DOMAIN rnodes :
                        /\ \E i \in 1..Len(rnodes[n].songs) :
                             /\ IdOf(rnodes[n].songs[i]) = id
                             /\ rnodes'[n].songs = RemoveAt(rnodes[n].songs, i - 1)
                        /\ \A m \in DOMAIN rnodes \ {n} : rnodes'[m] = rnodes[m]
              ELSE /\ ~ret'.ok
                   /\ rnodes' = rnodes
         /\ UNCHANGED <<nodes, head, tail, size, heap, nextId, songMap, ratings, history,
                        blockedArtists>>
    ]_vars

\* a delete took the first of two songs out of a bucket
C28_Witness ==
  /\ ret.op = "ratingTree.deleteSong"
  /\ ret.ok
  /\ \E n \in DOMAIN rnodes : rnodes[n].songs = <<2>> /\ heap[1].rating = rnodes[n].rating
  /\ \E n \in DOMAIN rnodes : rnodes[n].songs = <<>>

\* C29: inserting a track at the index equal to the size appends it: the
\* playlist afterwards is the playlist before followed by that track, with the
\* identity it had, and the size is one more.
C29_InsertAtEnd ==
  [][\A index \in Indices, song \in DOMAIN heap :
       ret'.op = "insertAt" /\ index = size /\ InsertAtIndex(index, song) =>
         /\ size' = size + 1
         /\ IdsOf(Playlist)' = Append(IdsOf(Playlist), IdOf(song))
    ]_vars

\* C30: exportSnapshot changes nothing of the playlist, the registry, the rating
\* tree, the ratings, the history and the blocklist; the view it returns has the
\* songs in the order of the playlist, the blocked artists as the blocklist
\* holds them, and for every song of the playlist that was rated the rating it
\* has now.
C30_Snapshot ==
  [][ret'.op = "exportSnapshot" /\ ExportSnapshot =>
       /\ UNCHANGED <<nodes, head, tail, size, heap, nextId, songMap, rnodes, root, ratings,
                      history, blockedArtists>>
       /\ "blockedArtists" \in DOMAIN ret'.val
       /\ ret'.val.blockedArtists = blockedArtists
       /\ "songs" \in DOMAIN ret'.val
       /\ ret'.val.songs = Playlist
       /\ "ratings" \in DOMAIN ret'.val
       /\ \A i \in 1..Len(Playlist) :
            CurrentRating(Playlist[i]) # 0 =>
              /\ IdOf(Playlist[i]) \in DOMAIN ret'.val.ratings
              /\ ret'.val.ratings[IdOf(Playlist[i])] = CurrentRating(Playlist[i])
    ]_vars

C32_Terminates == Busy ~> ~Busy

\* the sort handler went through its clear loop on three songs and ended
C32_Witness ==
  /\ ~Busy
  /\ ret.op = "sortPlaylist"
  /\ size = 2
  /\ nextId = 5

\* the places of the rating tree where a track is filed: node and position
FiledAt(id) ==
  {<<n, i>> \in (DOMAIN rnodes) \X (1..(MaxTreeRates + 1)) :
     i <= Len(rnodes[n].songs) /\ IdOf(rnodes[n].songs[i]) = id}

\* C33: rating a track that is already rated overwrites the rating: afterwards
\* its rating is the new one and the track is filed exactly once in the whole
\* rating tree, in the bucket of the new rating.
C33_RatingOverwritten ==
  [][\A id \in Ids, r \in RatingInputs :
       ret'.op = "rateSong" /\ ret'.ok /\ FiledAt(id) # {} /\ RateSong(id, r) =>
         /\ CurrentRating(songMap[id])' = r
         /\ Cardinality(FiledAt(id)') = 1
         /\ \A p \in FiledAt(id)' : rnodes'[p[1]].rating = r
    ]_vars

\* C34: in every snapshot the rated identities are tracks of the snapshot: the
\* keys of its ratings map are identities of its track list, and its rating
\* statistics count under each rating only bucket entries whose identity is a
\* track of the playlist.
C34_SnapshotRatingsOfTracks ==
  [][ret'.op = "exportSnapshot" /\ ExportSnapshot =>
       IF engine = "first"
         THEN DOMAIN ret'.val.ratings \subseteq
                {IdOf(ret'.val.songs[i]) : i \in 1..Len(ret'.val.songs)}
         ELSE \A n \in DOMAIN rnodes :
                ret'.val.ratingStats[rnodes[n].rating] =
                  Cardinality({i \in 1..Len(rnodes[n].songs) :
                                 IdOf(rnodes[n].songs[i]) \in PlaylistIds})
    ]_vars

C36_SortersAgree ==
  [][\A criteria \in SortCriteria(engine), order \in SortOrder :
       QuickSort(criteria, order) =>
         sorted'.songs = mergeSort(engine, heap, SortInput, criteria, order)
    ]_vars

\* C37: once every handler of the page that was called has completed, the
\* snapshot the page holds is the backend's state after all their mutations.
C37_SnapshotFresh ==
  (\A h \in Handlers : pc[h] \in {"idle", "done"}) => snapshot = backend

\* the titles searched for: those of the Songs, in either case, and one of none
SearchTitles == {<<"a">>, <<"A">>, <<"b">>, <<"B">>, <<"c">>}

\* the Songs of the id map whose title is a title up to case
WithTitle(title) ==
  {songMap[id] : id \in {i \in DOMAIN songMap :
                           toLowerCase(heap[songMap[i]].title) = toLowerCase(title)}}

\* C38: searchByTitle(t) returns exactly the Songs of the id map whose title is
\* t up to case, each once; an addSong of a Song that is not in the map puts it
\* at the end of that list; and no key of the title index has an empty list.
C38_TitleIndex ==
  /\ [](/\ \A title \in SearchTitles :
             LET found == searchByTitle(titleMap, title)
             IN /\ {found[i] : i \in 1..Len(found)} = WithTitle(title)
                /\ \A i, j \in 1..Len(found) : found[i] = found[j] => i = j
         /\ \A titleKey \in DOMAIN titleMap : titleMap[titleKey] # <<>>)
  /\ [][\A song \in DOMAIN heap :
          ret'.op = "lookup.addSong" /\ heap[song].id \notin DOMAIN songMap
            /\ LookupAddSong(song) =>
              searchByTitle(titleMap, heap[song].title)' =
                Append(searchByTitle(titleMap, heap[song].title), song)
       ]_vars

====
